---- MODULE Spec2Model ----
(***************************************************************************)
(* Model of the prior-authorization rule engine of pauth_rc               *)
(* (backend/app/rules/rule_engine.py): the value comparator, the          *)
(* condition and rule evaluators and the evaluate_all orchestrator.       *)
(*                                                                        *)
(* Python values are tagged records:                                      *)
(*   None -> [t |-> "none"]          bool -> [t |-> "bool", b |-> ...]    *)
(*   int  -> [t |-> "int", n |-> ..] str  -> [t |-> "str", s |-> chars]   *)
(*   list -> [t |-> "list", l |-> <<values>>]                             *)
(*   dict -> [t |-> "dict", d |-> [keys -> values]]                       *)
(* A str is a sequence of one-character strings so that lower(), strip()  *)
(* and upper() are computed, not assumed.                                 *)
(* A call either returns or raises: [exc |-> "", ret |-> value] is a      *)
(* return, [exc |-> "ValueError", ...] an exception.                      *)
(***************************************************************************)
EXTENDS Integers, Sequences, FiniteSets, TLC

VARIABLES
    patient_data,   \* evaluate_all / evaluate_rule argument: fact map (dict)
    policy_rules,   \* evaluate_all argument: list of rule dicts
    requested_cpt,  \* evaluate_all argument
    report,         \* outcome of the evaluate_all call
    rule,           \* evaluate_rule argument
    rule_result,    \* outcome of the evaluate_rule call
    cond,           \* evaluate_condition argument: condition dict
    cond_result,    \* outcome of the evaluate_condition call
    chart,          \* normalize_patient_evidence argument: raw chart dict
    chart_result,   \* outcome of the normalize_patient_evidence call
    policy,         \* normalize_policy_criteria argument: raw policy dict
    policy_result,  \* outcome of the normalize_policy_criteria call
    template,       \* validate argument: compiled checklist dict
    validation,     \* outcome of the validate call
    verdict_args,   \* determine_verdict arguments <<readiness_score, exception_applied>>
    verdict,        \* outcome of the determine_verdict call
    response,       \* outcome of the check_prior_auth response building
    cmp_args,       \* compare_values arguments <<patient_value, operator, threshold>>
    cmp_result      \* outcome of the compare_values call

vars == <<patient_data, policy_rules, requested_cpt, report,
          rule, rule_result, cmp_args, cmp_result, cond, cond_result,
          chart, chart_result, policy, policy_result,
          template, validation, verdict_args, verdict, response>>

-----------------------------------------------------------------------------
(* Bounds of the model *)

MaxInt == 2
MaxConds == 3
MaxThreshold == 2
MaxRules == 3

-----------------------------------------------------------------------------
(* Python values *)

PyNone == [t |-> "none"]
PyBool(b) == [t |-> "bool", b |-> b]
PyInt(n) == [t |-> "int", n |-> n]
PyStr(s) == [t |-> "str", s |-> s]
PyList(l) == [t |-> "list", l |-> l]
PyDict(d) == [t |-> "dict", d |-> d]

PyTrue == PyBool(TRUE)
PyFalse == PyBool(FALSE)

Returned(v) == [exc |-> "", ret |-> v]
Raised(e) == [exc |-> e, ret |-> PyNone]
Pending == [exc |-> "pending", ret |-> PyNone]

IsNumeric(v) == v.t \in {"bool", "int"}

\* bool is a subclass of int: True is 1, False is 0.
NumOf(v) == IF v.t = "bool" THEN (IF v.b THEN 1 ELSE 0) ELSE v.n

\* Truth value of an object (bool(x)).
Truthy(v) ==
    CASE v.t = "none" -> FALSE
      [] v.t = "bool" -> v.b
      [] v.t = "int" -> v.n # 0
      [] v.t = "str" -> Len(v.s) > 0
      [] v.t = "list" -> Len(v.l) > 0
      [] v.t = "dict" -> DOMAIN v.d # {}

\* Code points of the characters the model uses.
Ord(c) ==
    CASE c = " " -> 32
      [] c = "A" -> 65
      [] c = "B" -> 66
      [] c = "C" -> 67
      [] c = "I" -> 73
      [] c = "M" -> 77
      [] c = "R" -> 82
      [] c = "T" -> 84
      [] c = "a" -> 97
      [] c = "b" -> 98
      [] c = "c" -> 99
      [] c = "i" -> 105
      [] c = "m" -> 109
      [] c = "r" -> 114
      [] c = "t" -> 116

LowerChar(c) ==
    CASE c = "A" -> "a"
      [] c = "B" -> "b"
      [] c = "C" -> "c"
      [] c = "F" -> "f"
      [] c = "I" -> "i"
      [] c = "M" -> "m"
      [] c = "R" -> "r"
      [] c = "T" -> "t"
      [] c = "U" -> "u"
      [] OTHER -> c

UpperChar(c) ==
    CASE c = "a" -> "A"
      [] c = "b" -> "B"
      [] c = "c" -> "C"
      [] c = "i" -> "I"
      [] c = "m" -> "M"
      [] c = "r" -> "R"
      [] c = "t" -> "T"
      [] c = "k" -> "K"
      [] c = "n" -> "N"
      [] c = "o" -> "O"
      [] c = "w" -> "W"
      [] OTHER -> c

\* str.lower() and str.upper()
lower(s) == [i \in 1..Len(s) |-> LowerChar(s[i])]
upper(s) == [i \in 1..Len(s) |-> UpperChar(s[i])]

IsSpace(c) == c = " "

\* str.strip(): drop leading and trailing whitespace.
strip(s) ==
    LET keep == {i \in 1..Len(s) : ~IsSpace(s[i])}
    IN  IF keep = {} THEN <<>>
        ELSE LET lo == CHOOSE i \in keep : \A j \in keep : i <= j
                 hi == CHOOSE i \in keep : \A j \in keep : j <= i
             IN  SubSeq(s, lo, hi)

\* Lexicographic order of two strings by code point: -1, 0 or 1.
StrCmp(a, b) ==
    LET n == IF Len(a) < Len(b) THEN Len(a) ELSE Len(b)
        diff == {i \in 1..n : a[i] # b[i]}
    IN  IF diff = {}
        THEN (IF Len(a) < Len(b) THEN -1 ELSE IF Len(a) > Len(b) THEN 1 ELSE 0)
        ELSE LET k == CHOOSE i \in diff : \A j \in diff : i <= j
             IN  IF Ord(a[k]) < Ord(b[k]) THEN -1 ELSE 1

\* a in b for two strings: a is a substring of b.
IsSubstring(a, b) ==
    \E i \in 0..(Len(b) - Len(a)) : SubSeq(b, i + 1, i + Len(a)) = a

\* Python ==, structural, with True == 1 and False == 0.
RECURSIVE PyEq(_, _)
PyEq(a, b) ==
    CASE IsNumeric(a) /\ IsNumeric(b) -> NumOf(a) = NumOf(b)
      [] a.t = "none" /\ b.t = "none" -> TRUE
      [] a.t = "str" /\ b.t = "str" -> a.s = b.s
      [] a.t = "list" /\ b.t = "list" ->
            /\ Len(a.l) = Len(b.l)
            /\ \A i \in 1..Len(a.l) : PyEq(a.l[i], b.l[i])
      [] a.t = "dict" /\ b.t = "dict" ->
            /\ DOMAIN a.d = DOMAIN b.d
            /\ \A k \in DOMAIN a.d : PyEq(a.d[k], b.d[k])
      [] OTHER -> FALSE

\* Python ordering: the sign of a compared with b, or "TypeError" when the
\* operands are not orderable ('>=' not supported between instances ...).
\* The result is [err |-> BOOLEAN, sign |-> -1..1].
Ordered(sg) == [err |-> FALSE, sign |-> sg]
Unorderable == [err |-> TRUE, sign |-> 0]

RECURSIVE PyOrder(_, _)
PyOrder(a, b) ==
    CASE IsNumeric(a) /\ IsNumeric(b) ->
            Ordered(IF NumOf(a) < NumOf(b) THEN -1
                    ELSE IF NumOf(a) > NumOf(b) THEN 1 ELSE 0)
      [] a.t = "str" /\ b.t = "str" -> Ordered(StrCmp(a.s, b.s))
      [] a.t = "list" /\ b.t = "list" ->
            LET n == IF Len(a.l) < Len(b.l) THEN Len(a.l) ELSE Len(b.l)
                diff == {i \in 1..n : ~PyEq(a.l[i], b.l[i])}
            IN  IF diff = {}
                THEN Ordered(IF Len(a.l) < Len(b.l) THEN -1
                             ELSE IF Len(a.l) > Len(b.l) THEN 1 ELSE 0)
                ELSE LET k == CHOOSE i \in diff : \A j \in diff : i <= j
                     IN  PyOrder(a.l[k], b.l[k])
      [] OTHER -> Unorderable

\* x in container: [err |-> TRUE] is the TypeError of a non-container
\* (None, bool, int) or of a non-str sought in a str.  The containers of the
\* model are lists and strs; a dict occurs only as a nested fact.
PyIn(x, c) ==
    CASE c.t = "list" -> [err |-> FALSE, val |-> \E i \in 1..Len(c.l) : PyEq(x, c.l[i])]
      [] c.t = "str" ->
            IF x.t = "str" THEN [err |-> FALSE, val |-> IsSubstring(x.s, c.s)]
            ELSE [err |-> TRUE, val |-> FALSE]
      [] c.t \in {"none", "bool", "int"} -> [err |-> TRUE, val |-> FALSE]

-----------------------------------------------------------------------------
(* compare_values *)

Operators == {"eq", "neq", "gte", "gt", "lte", "lt", "in", "contains", "any_in"}

\* compare_none with "threshold == False" in place of "threshold is False".
compare_none_eq_false(operator, threshold) ==
    operator = "eq" /\ (threshold.t = "none" \/ PyEq(threshold, PyFalse))

\* The branch of compare_values for a patient value that is None.
compare_none(operator, threshold) ==
    operator = "eq" /\ (threshold.t = "none" \/ (threshold.t = "bool" /\ ~threshold.b))

OrderOperators == {"gte", "gt", "lte", "lt"}

\* compare_order with gt computed as >=.
compare_order_gt_as_gte(operator, ord) ==
    /\ ~ord.err
    /\ CASE operator = "gte" -> ord.sign >= 0
         [] operator = "gt" -> ord.sign >= 0
         [] operator = "lte" -> ord.sign <= 0
         [] operator = "lt" -> ord.sign < 0

\* The gte / gt / lte / lt branches of compare_values: the comparison, or
\* False when it raises TypeError.
compare_order(operator, ord) ==
    /\ ~ord.err
    /\ CASE operator = "gte" -> ord.sign >= 0
         [] operator = "gt" -> ord.sign > 0
         [] operator = "lte" -> ord.sign <= 0
         [] operator = "lt" -> ord.sign < 0

\* compare_str_eq without the strip().
compare_str_eq_no_strip(a, b) == lower(a) = lower(b)

\* The eq branch of compare_values for two strs.
compare_str_eq(a, b) == strip(lower(a)) = strip(lower(b))

\* compare_values that answers False for an operator it does not know.
compare_values_unknown_false(patient_value, operator, threshold) ==
    IF patient_value.t = "none"
    THEN Returned(compare_none(operator, threshold))
    ELSE IF operator = "eq" /\ patient_value.t = "str" /\ threshold.t = "str"
    THEN Returned(compare_str_eq(patient_value.s, threshold.s))
    ELSE    CASE operator \in OrderOperators ->
                    Returned(compare_order(operator, PyOrder(patient_value, threshold)))
              [] operator = "eq" -> Returned(PyEq(patient_value, threshold))
              [] operator = "neq" -> Returned(~PyEq(patient_value, threshold))
              [] operator = "in" ->
                    LET r == PyIn(patient_value, threshold)
                    IN  Returned(~r.err /\ r.val)
              [] operator = "contains" ->
                    Returned(patient_value.t = "list" /\ PyIn(threshold, patient_value).val)
              [] operator = "any_in" ->
                    Returned(/\ patient_value.t = "list"
                             /\ threshold.t = "list"
                             /\ \E i \in 1..Len(patient_value.l) :
                                    PyIn(patient_value.l[i], threshold).val)
              [] OTHER -> Returned(FALSE)

compare_values(patient_value, operator, threshold) ==
    IF patient_value.t = "none"
    THEN Returned(compare_none(operator, threshold))
    ELSE IF operator = "eq" /\ patient_value.t = "str" /\ threshold.t = "str"
    THEN Returned(compare_str_eq(patient_value.s, threshold.s))
    ELSE    CASE operator \in OrderOperators ->
                    Returned(compare_order(operator, PyOrder(patient_value, threshold)))
              [] operator = "eq" -> Returned(PyEq(patient_value, threshold))
              [] operator = "neq" -> Returned(~PyEq(patient_value, threshold))
              [] operator = "in" ->
                    LET r == PyIn(patient_value, threshold)
                    IN  Returned(~r.err /\ r.val)
              [] operator = "contains" ->
                    Returned(patient_value.t = "list" /\ PyIn(threshold, patient_value).val)
              [] operator = "any_in" ->
                    Returned(/\ patient_value.t = "list"
                             /\ threshold.t = "list"
                             /\ \E i \in 1..Len(patient_value.l) :
                                    PyIn(patient_value.l[i], threshold).val)
              [] OTHER -> Raised("ValueError")

-----------------------------------------------------------------------------
(* get_nested_value and evaluate_condition *)

\* dict.get(key) on a key the dict lacks, for the string-valued entries of a
\* rule or condition (id, logic, field, operator).
Missing == "<missing>"

\* path.split('.') for the field names of the model.
split_dot(path) ==
    CASE path = "imaging.type" -> <<"imaging", "type">>
      [] path = "imaging.findings.kind" -> <<"imaging", "findings", "kind">>
      [] OTHER -> <<path>>

\* d.get(key): None for a key that is not present.
DictGet(d, key) == IF key \in DOMAIN d THEN d[key] ELSE PyNone

RECURSIVE Walk(_, _, _)
Walk(value, keys, default) ==
    IF keys = <<>> THEN value
    ELSE IF value.t = "dict"
         THEN LET v == DictGet(value.d, Head(keys))
              IN  IF v.t = "none" THEN default ELSE Walk(v, Tail(keys), default)
         ELSE default

\* A "field" entry that is truthy but not a str (a number, a list).
NotAStr == "<not a str>"

\* A path that is None or not a str has no split(): AttributeError.
get_nested_value(data, path) ==
    IF path \in {Missing, NotAStr} THEN Raised("AttributeError")
    ELSE Returned(Walk(PyDict(data), split_dot(path), PyNone))

\* Truth value of a string entry: None and "" are falsy.
StrTruthy(s) == s # Missing /\ s # ""

evaluate_condition(data, condition) ==
    LET field == IF "field" \in DOMAIN condition THEN condition.field ELSE Missing
        operator == IF "operator" \in DOMAIN condition THEN condition.operator ELSE Missing
        threshold == IF "value" \in DOMAIN condition THEN condition.value ELSE PyNone
    IN  IF ~(StrTruthy(field) /\ StrTruthy(operator))
        THEN Returned(FALSE)
        ELSE LET patient_value == get_nested_value(data, field)
             IN  IF patient_value.exc # "" THEN Raised(patient_value.exc)
                 ELSE LET r == compare_values(patient_value.ret, operator, threshold)
                      IN  IF r.exc # "" THEN Returned(FALSE) ELSE r

-----------------------------------------------------------------------------
(* _format_patient_values *)

NotFound == <<"Not found in chart">>

\* str(x) of a value that is not a str.
str(v) == [t |-> "str_of", of |-> v]

RECURSIVE FormatParts(_)
FormatParts(values) ==
    IF values = <<>> THEN <<>>
    ELSE LET value == Head(values)
             rest == FormatParts(Tail(values))
         IN  CASE value.t = "none" -> rest
               [] value.t = "bool" -> <<IF value.b THEN "Yes" ELSE "No">> \o rest
               [] value.t = "int" -> <<str(value)>> \o rest
               [] value.t = "list" ->
                     LET items == SelectSeq(value.l, LAMBDA item : item.t # "none")
                     IN  IF items = <<>> THEN rest
                         ELSE <<[joined |-> [i \in 1..Len(items) |-> str(items[i])]]>> \o rest
               [] value.t = "str" -> <<value>> \o rest
               [] OTHER -> <<str(value)>> \o rest

\* The summary is the sequence of parts that "; ".join() glues together.
format_patient_values(patient_values) ==
    IF patient_values = <<>> THEN NotFound
    ELSE LET formatted_parts == FormatParts(patient_values)
         IN  IF formatted_parts = <<>> THEN NotFound ELSE formatted_parts

-----------------------------------------------------------------------------
(* evaluate_rule *)

\* A rule or condition dict is a record whose domain is the set of keys the
\* dict holds; d.get(key, default) returns the default for a key not held.
Get(d, key, default) == IF key \in DOMAIN d THEN d[key] ELSE default

\* all(results) and any(results) over a list of booleans.
all(bs) == \A i \in 1..Len(bs) : bs[i]
any(bs) == \E i \in 1..Len(bs) : bs[i]

\* combine with any() taken for all().
combine_any_as_all(logic, results) ==
    IF logic = "all" THEN all(results)
    ELSE IF logic = "any" THEN all(results)
    ELSE FALSE

\* The combinator of evaluate_rule: all(), any(), and False for any other logic.
combine(logic, results) ==
    IF logic = "all" THEN all(results)
    ELSE IF logic = "any" THEN any(results)
    ELSE FALSE

no_conditions_never(conditions) == FALSE

\* `if not conditions`: an empty list (the default of a missing key).
no_conditions(conditions) == conditions = <<>>

evaluate_rule(data, r) ==
    LET rule_id == Get(r, "id", "unknown")
        description == Get(r, "description", "No description")
        logic == Get(r, "logic", "all")
        conditions == Get(r, "conditions", <<>>)
    IN  IF no_conditions(conditions)
        THEN Returned([rule_id |-> rule_id,
                       description |-> description,
                       met |-> FALSE,
                       details |-> "No conditions specified",
                       patient_value |-> NotFound])
        ELSE
        LET N == Len(conditions)
            outcomes == [i \in 1..N |-> evaluate_condition(data, conditions[i])]
            results == [i \in 1..N |-> outcomes[i].ret]
            met == combine(logic, results)
            field(i) == Get(conditions[i], "field", Missing)
            looked_up == [i \in 1..N |-> get_nested_value(data, field(i))]
            condition_details ==
                [i \in 1..N |->
                    [condition |-> <<field(i),
                                     Get(conditions[i], "operator", Missing),
                                     Get(conditions[i], "value", PyNone)>>,
                     patient_value |-> looked_up[i].ret,
                     met |-> results[i]]]
            found == {i \in 1..N : looked_up[i].ret.t # "none"}
            patient_values ==
                LET RECURSIVE Collect(_)
                    Collect(i) == IF i > N THEN <<>>
                                  ELSE IF i \in found
                                       THEN <<looked_up[i].ret>> \o Collect(i + 1)
                                       ELSE Collect(i + 1)
                IN  Collect(1)
        IN  IF \E i \in 1..N : outcomes[i].exc # ""
            THEN Raised((CHOOSE o \in {outcomes[i] : i \in 1..N} : o.exc # "").exc)
            ELSE IF \E i \in 1..N : looked_up[i].exc # ""
            THEN Raised("AttributeError")
            ELSE Returned([rule_id |-> rule_id,
                           description |-> description,
                           met |-> met,
                           logic |-> logic,
                           condition_details |-> condition_details,
                           patient_value |-> format_patient_values(patient_values)])

-----------------------------------------------------------------------------
(* RepeatImagingRule *)

\* A message of the program, never taken apart.
Text(s) == [t |-> "text", s |-> s]

MRI_CPTS == {"73721", "73722", "73723"}
CT_CPTS == {"73700", "73701"}
RECENT_MONTHS_THRESHOLD == 6

get_modality_from_cpt(cpt) ==
    IF cpt \in MRI_CPTS THEN <<"M", "R", "I">>
    ELSE IF cpt \in CT_CPTS THEN <<"C", "T">>
    ELSE <<"U", "n", "k", "n", "o", "w", "n">>

\* Returns a warning dict, None, or raises when imaging_type has no upper()
\* or imaging_months_ago is not orderable with an int.
RepeatImagingRule_evaluate(normalized_patient, cpt) ==
    LET imaging_type == DictGet(normalized_patient, "imaging_type")
        imaging_months_ago == DictGet(normalized_patient, "imaging_months_ago")
        requested_modality == get_modality_from_cpt(cpt)
    IN  IF imaging_type.t = "none" \/ imaging_months_ago.t = "none"
        THEN Returned(PyNone)
        ELSE IF imaging_type.t # "str" THEN Raised("AttributeError")
        ELSE IF upper(imaging_type.s) # upper(requested_modality)
        THEN Returned(PyNone)
        ELSE IF ~IsNumeric(imaging_months_ago) THEN Raised("TypeError")
        ELSE IF NumOf(imaging_months_ago) < RECENT_MONTHS_THRESHOLD
        THEN Returned([t |-> "warning",
                       rule_id |-> "repeat_imaging_check",
                       recommendation |-> "REVIEW_EXISTING_IMAGING_FIRST",
                       description |-> "Verify new imaging order when recent prior imaging exists",
                       severity |-> "WARNING",
                       imaging_type |-> imaging_type,
                       imaging_months_ago |-> NumOf(imaging_months_ago)])
        ELSE Returned(PyNone)

-----------------------------------------------------------------------------
(* evaluate_workers_compensation_exclusion and evaluate_all *)

WCReason == Text("Workers' Compensation - bill WC carrier, not standard payer")

\* evaluate_workers_compensation_exclusion that never detects a WC case.
wc_exclusion_never(data) == PyNone

evaluate_workers_compensation_exclusion(data) ==
    IF Truthy(DictGet(data, "is_workers_compensation"))
    THEN [t |-> "result",
          rule_id |-> "workers_compensation_exclusion",
          description |-> "Workers Compensation cases are excluded from standard PA evaluation",
          met |-> FALSE,
          logic |-> "all",
          condition_details |->
              <<[condition |-> <<"is_workers_compensation", "eq", PyFalse>>,
                 patient_value |-> PyTrue,
                 met |-> FALSE]>>,
          patient_value |-> <<"Workers Compensation case detected">>,
          exclusion |-> TRUE,
          exclusion_reason |-> WCReason]
    ELSE PyNone

\* A tally that looks at the first result only.
CountMet_first(results) == IF results # <<>> /\ results[1].met THEN 1 ELSE 0

\* Number of entries of a list of results that are met / not met.
CountMet(results) == Cardinality({i \in 1..Len(results) : results[i].met})
CountFailed(results) == Cardinality({i \in 1..Len(results) : ~results[i].met})

evaluate_all(data, rules, cpt) ==
    LET wc_exclusion == evaluate_workers_compensation_exclusion(data)
    IN  IF wc_exclusion.t # "none"
        THEN Returned([results |-> <<wc_exclusion>>,
                       all_criteria_met |-> FALSE,
                       total_rules |-> 1,
                       rules_met |-> 0,
                       rules_failed |-> 1,
                       excluded |-> TRUE,
                       exclusion_reason |-> wc_exclusion.exclusion_reason,
                       warnings |-> <<>>])
        ELSE
        LET advisory == IF cpt # "" THEN RepeatImagingRule_evaluate(data, cpt)
                        ELSE Returned(PyNone)
            warnings == IF advisory.ret.t # "none" THEN <<advisory.ret>> ELSE <<>>
            outcomes == [i \in 1..Len(rules) |-> evaluate_rule(data, rules[i])]
            rule_results == [i \in 1..Len(rules) |-> outcomes[i].ret]
        IN  IF advisory.exc # "" THEN Raised(advisory.exc)
            ELSE IF \E i \in 1..Len(rules) : outcomes[i].exc # ""
            THEN Raised("AttributeError")
            ELSE Returned([results |-> rule_results,
                           all_criteria_met |-> \A i \in 1..Len(rule_results) : rule_results[i].met,
                           total_rules |-> Len(rule_results),
                           rules_met |-> CountMet(rule_results),
                           rules_failed |-> CountFailed(rule_results),
                           excluded |-> FALSE,
                           exclusion_reason |-> PyNone,
                           warnings |-> warnings])

-----------------------------------------------------------------------------
(* Inputs *)

SeqsUpTo(S, n) == UNION {[1..k -> S] : k \in 0..n}

\* Dicts over a set of keys: every subset of the keys may be present.
DictsOver(keys, vals) == UNION {[D -> vals] : D \in SUBSET keys}

EmptyDict == [k \in {} |-> PyNone]

\* Values handed to compare_values.
MaxStrLen == 2
MaxListLen == 2
Alphabet == {" ", "A", "a", "b"}
Strs == {PyStr(s) : s \in SeqsUpTo(Alphabet, MaxStrLen)}
Ints == {PyInt(n) : n \in 0..MaxInt}
ListElems == {PyNone, PyInt(1), PyStr(<<"a">>)}
Lists == {PyList(l) : l \in SeqsUpTo(ListElems, MaxListLen)}
Values == {PyNone, PyTrue, PyFalse} \cup Ints \cup Strs \cup Lists
CompareOperators == Operators \cup {"bogus"}
\* A patient value may also be a nested dict of the fact map.
PatientValues == Values \cup {PyDict([k \in {"kind"} |-> PyInt(1)])}

\* Rules handed to evaluate_rule: conditions as the tests build them
\* (field_i eq True), one with another operator, one with an unknown operator.
TestFields == {"field_0", "field_1", "field_2"}
CondPool ==
    {[field |-> f, operator |-> "eq", value |-> PyTrue] : f \in TestFields}
    \cup {[field |-> "field_0", operator |-> "neq", value |-> PyTrue],
          [field |-> "field_1", operator |-> "bogus", value |-> PyTrue]}
Logics == {"all", "any", "count_gte", "count_lte"}
RuleInputs ==
    {[id |-> "r", logic |-> lg, threshold |-> T, conditions |-> cs] :
        lg \in Logics, T \in 0..MaxThreshold, cs \in SeqsUpTo(CondPool, MaxConds)}
    \cup {[id |-> "r", conditions |-> cs] : cs \in SeqsUpTo(CondPool, MaxConds)}
    \cup {[id |-> "r", logic |-> lg] : lg \in Logics}
RuleFacts == DictsOver(TestFields, {PyTrue, PyFalse})

\* Rule lists handed to evaluate_all: standard rules, an exclusion rule, an
\* exception pathway that overrides one or two standard rules, and a rule
\* with a condition that lacks its field.
EqTrue(f) == [field |-> f, operator |-> "eq", value |-> PyTrue]
PolicyRulePool ==
    {[id |-> "rule_a", logic |-> "all", conditions |-> <<EqTrue("field_0")>>],
     [id |-> "rule_b", logic |-> "all", conditions |-> <<EqTrue("field_1")>>],
     [id |-> "excl_rule", logic |-> "all", exclusion |-> TRUE,
      conditions |-> <<EqTrue("is_excluded")>>],
     [id |-> "broken", logic |-> "all",
      conditions |-> <<[operator |-> "eq", value |-> PyTrue]>>],
     [id |-> "no_conditions", logic |-> "all"]}
    \cup {[id |-> "exception", logic |-> "all", exception_pathway |-> TRUE,
           overrides |-> ov, conditions |-> <<EqTrue("red_flag")>>] :
             ov \in {<<"rule_a">>, <<"rule_a", "rule_b">>}}
PolicyRuleLists == SeqsUpTo(PolicyRulePool, MaxRules)

PolicyFields == {"field_0", "field_1", "is_excluded", "red_flag"}
RecentMri == [imaging_type |-> PyStr(<<"m", "r", "i">>), imaging_months_ago |-> PyInt(2)]
\* An imaging_type that is not a str (no upper()).
BadImaging == [imaging_type |-> PyInt(1), imaging_months_ago |-> PyInt(2)]
PolicyFacts ==
    {f @@ wc @@ img :
        f \in [PolicyFields -> {PyTrue, PyFalse}],
        wc \in DictsOver({"is_workers_compensation"}, {PyTrue, PyFalse}),
        img \in {EmptyDict, RecentMri, BadImaging}}
Cpts == {"", "73721"}

-----------------------------------------------------------------------------
(* normalized_custom.py: normalize_patient_evidence *)

\* A free-text str of the chart, known by the keywords its lowercased form
\* contains; it is never empty.
Note(kw) == [t |-> "note", kw |-> kw]

IsStr(v) == v.t \in {"str", "note"}

\* bool(x) for the values of a raw chart.
Truth(v) == IF v.t = "note" THEN TRUE ELSE Truthy(v)

\* `a or b`
Or(a, b) == IF Truth(a) THEN a ELSE b

\* obj.get(key, default): only a dict has get().
AttrGet(obj, key, default) ==
    IF obj.t = "dict" THEN Returned(Get(obj.d, key, default))
    ELSE Raised("AttributeError")

\* obj.get(key), None for a missing key.
AttrGetNone(obj, key) == AttrGet(obj, key, PyNone)

\* The exception of the first step that raised, "" when none did.
FirstExc(steps) ==
    IF \A i \in 1..Len(steps) : steps[i] = "" THEN ""
    ELSE steps[CHOOSE i \in 1..Len(steps) :
                  steps[i] # "" /\ \A j \in 1..(i - 1) : steps[j] = ""]

\* Symptom duration in months and weeks (a month is four weeks).
normalize_symptom_duration(ds) ==
    LET symptom_months == AttrGetNone(ds, "symptom_duration_months")
        symptom_weeks == AttrGetNone(ds, "symptom_duration_weeks")
    IN  IF symptom_months.exc # "" THEN Raised(symptom_months.exc)
        ELSE IF symptom_months.ret.t # "none"
        THEN IF ~IsNumeric(symptom_months.ret) THEN Raised("TypeError")
             ELSE Returned([symptom_duration_months |-> symptom_months.ret,
                            symptom_duration_weeks |->
                                PyInt(NumOf(symptom_months.ret) * 4)])
        ELSE IF symptom_weeks.ret.t # "none"
        THEN IF ~IsNumeric(symptom_weeks.ret) THEN Raised("TypeError")
             ELSE Returned([symptom_duration_weeks |-> symptom_weeks.ret,
                            symptom_duration_months |->
                                PyInt(NumOf(symptom_weeks.ret) \div 4)])
        ELSE Returned([symptom_duration_months |-> PyNone,
                       symptom_duration_weeks |-> PyNone])

FailedOutcomes ==
    {<<"f", "a", "i", "l", "e", "d">>,
     <<"n", "o", " ", "r", "e", "l", "i", "e", "f">>,
     <<"u", "n", "s", "u", "c", "c", "e", "s", "s", "f", "u", "l">>,
     <<"i", "n", "e", "f", "f", "e", "c", "t", "i", "v", "e">>}

\* outcome in ["failed", "no relief", "unsuccessful", "ineffective"], after
\* `or ""` and lower() of a str.
outcome_failed(outcome) ==
    outcome.t = "str" /\ lower(outcome.s) \in FailedOutcomes

\* Physical therapy, NSAIDs and injections of conservative_therapy.
normalize_conservative_therapy(ds) ==
    LET conservative == AttrGet(ds, "conservative_therapy", PyDict(EmptyDict))
        pt == AttrGet(conservative.ret, "physical_therapy", PyDict(EmptyDict))
        nsaids == AttrGet(conservative.ret, "nsaids", PyDict(EmptyDict))
        injections == AttrGet(conservative.ret, "injections", PyDict(EmptyDict))
        exc == FirstExc(<<conservative.exc,
                          pt.exc, AttrGetNone(pt.ret, "attempted").exc,
                          nsaids.exc, AttrGetNone(nsaids.ret, "documented").exc,
                          injections.exc,
                          AttrGetNone(injections.ret, "documented").exc>>)
    IN  IF exc # "" THEN Raised(exc)
        ELSE Returned(
            [pt_attempted |-> Get(pt.ret.d, "attempted", PyFalse),
             pt_duration_weeks |->
                Or(Or(DictGet(pt.ret.d, "duration_weeks"),
                      DictGet(pt.ret.d, "weeks")),
                   DictGet(pt.ret.d, "duration")),
             pt_sessions |-> Or(DictGet(pt.ret.d, "sessions"),
                                DictGet(pt.ret.d, "session_count")),
             nsaid_documented |-> Get(nsaids.ret.d, "documented", PyFalse),
             nsaid_outcome |-> DictGet(nsaids.ret.d, "outcome"),
             nsaid_failed |-> PyBool(outcome_failed(DictGet(nsaids.ret.d, "outcome"))),
             injection_documented |-> Get(injections.ret.d, "documented", PyFalse),
             injection_outcome |-> DictGet(injections.ret.d, "outcome"),
             injection_failed |->
                PyBool(outcome_failed(DictGet(injections.ret.d, "outcome")))])

XRay == <<"X", "-", "r", "a", "y">>
Mri == <<"M", "R", "I">>
Ct == <<"C", "T">>

\* Normalized imaging type: X-ray, MRI or CT by substring of the lowercased
\* type, otherwise the type as given; lower() needs a str.
normalize_imaging_type(imaging_type) ==
    IF ~Truth(imaging_type) THEN Returned(PyNone)
    ELSE IF imaging_type.t # "str" THEN Raised("AttributeError")
    ELSE LET imaging_type_lower == lower(imaging_type.s)
         IN  IF \/ IsSubstring(<<"x", "-", "r", "a", "y">>, imaging_type_lower)
                \/ IsSubstring(<<"x", "r", "a", "y">>, imaging_type_lower)
             THEN Returned(PyStr(XRay))
             ELSE IF IsSubstring(<<"m", "r", "i">>, imaging_type_lower)
             THEN Returned(PyStr(Mri))
             ELSE IF IsSubstring(<<"c", "t">>, imaging_type_lower)
             THEN Returned(PyStr(Ct))
             ELSE Returned(imaging_type)

\* x[:100] needs a str or a list.
Sliceable(v) == v.t \in {"str", "note", "list"}

\* imaging_months_ago: months_ago, else days_ago / 30 (the charts of the
\* model give days in multiples of 30), else 0 for a documented imaging.
\* The charts of the model hold no clinical_notes_date that parses as a
\* date, so the difference of dates (lines 295-310) is never computed.
normalize_imaging_months_ago(imaging) ==
    LET months_ago == DictGet(imaging, "months_ago")
        imaging_days_ago == DictGet(imaging, "days_ago")
        from_days == imaging_days_ago.t # "none" /\ months_ago.t = "none"
        after_days == IF from_days
                      THEN PyInt(NumOf(imaging_days_ago) \div 30)
                      ELSE months_ago
    IN  IF from_days /\ ~IsNumeric(imaging_days_ago) THEN Raised("TypeError")
        ELSE IF after_days.t = "none" /\ Truth(DictGet(imaging, "documented"))
        THEN IF "findings" \in DOMAIN imaging /\ ~Sliceable(imaging.findings)
             THEN Raised("TypeError")
             ELSE Returned(PyInt(0))
        ELSE Returned(after_days)

normalize_imaging(ds) ==
    LET imaging == AttrGet(ds, "imaging", PyDict(EmptyDict))
        documented == AttrGet(imaging.ret, "documented", PyFalse)
        imaging_type == normalize_imaging_type(AttrGetNone(imaging.ret, "type").ret)
        months == IF documented.exc = ""
                  THEN normalize_imaging_months_ago(imaging.ret.d)
                  ELSE Raised(documented.exc)
        exc == FirstExc(<<imaging.exc, documented.exc, imaging_type.exc, months.exc>>)
    IN  IF exc # "" THEN Raised(exc)
        ELSE Returned([imaging_documented |-> documented.ret,
                       imaging_type |-> imaging_type.ret,
                       imaging_body_part |-> DictGet(imaging.ret.d, "body_part"),
                       imaging_months_ago |-> months.ret])

normalize_functional_impairment(ds) ==
    LET functional == AttrGet(ds, "functional_impairment", PyDict(EmptyDict))
        documented == AttrGet(functional.ret, "documented", PyFalse)
        exc == FirstExc(<<functional.exc, documented.exc>>)
    IN  IF exc # "" THEN Raised(exc)
        ELSE Returned(
            [functional_impairment_documented |-> documented.ret,
             functional_impairment_description |->
                DictGet(functional.ret.d, "description")])

\* Keywords of str(v).lower(): those of a note; the str() of anything else
\* ("None", "5", "") holds none of the keywords of the source.
KwOf(v) == IF v.t = "note" THEN v.kw ELSE {}

\* any(keyword in text for keyword in keywords)
HasAny(kw, keywords) == kw \cap keywords # {}

PostOpKeywords == {"post-op", "post-surgical", "post surgery", "postoperative"}

\* " ".join(texts): every element has to be a str.
Joinable(texts) == \A i \in 1..Len(texts) : IsStr(texts[i])

JoinKw(texts) == UNION {KwOf(texts[i]) : i \in 1..Len(texts)}

\* First indication of indication_keywords (in dict order) with a keyword
\* in the text, None when there is none.
indication_by_keyword(kw) ==
    CASE HasAny(kw, {"meniscal tear", "meniscus tear", "torn meniscus"}) -> "meniscal tear"
      [] HasAny(kw, {"mechanical", "catching", "locking", "clicking", "popping"}) ->
            "mechanical symptoms"
      [] HasAny(kw, {"acl", "pcl", "mcl", "lcl", "ligament", "cruciate", "collateral"}) ->
            "ligament rupture"
      [] HasAny(kw, {"instability", "giving way", "unstable"}) -> "instability"
      [] HasAny(kw, {"trauma", "traumatic", "acute injury", "fall", "accident"}) ->
            "traumatic injury"
      [] HasAny(kw, {"mcmurray", "thessaly", "apley"}) -> "positive mcmurray"
      [] HasAny(kw, PostOpKeywords) -> "post-operative"
      [] HasAny(kw, {"infection", "tumor", "fracture", "cancer", "septic"}) -> "red flag"
      [] OTHER -> Missing

\* The indication normalize_patient_evidence extracts itself, by source in
\* priority order; a later source is read only when no earlier one gave an
\* indication. ds is a dict whose imaging and conservative_therapy are dicts.
extracted_indication(ds) ==
    LET evidence_notes == Get(ds.d, "evidence_notes", PyList(<<>>))
        imaging == Get(ds.d, "imaging", PyDict(EmptyDict))
        pain_chars == Get(ds.d, "pain_characteristics", PyDict(EmptyDict))
        red_flags == Get(ds.d, "red_flags", PyDict(EmptyDict))
        conservative == Get(ds.d, "conservative_therapy", PyDict(EmptyDict))
        other_treatments == Get(conservative.d, "other_treatments", PyDict(EmptyDict))
        imaging_findings == KwOf(DictGet(imaging.d, "findings"))
        source1 ==
            CASE HasAny(imaging_findings,
                        {"meniscal tear", "meniscus tear", "torn meniscus"}) ->
                    "meniscal tear"
              [] HasAny(imaging_findings,
                        {"acl", "pcl", "ligament rupture", "cruciate"}) ->
                    "ligament rupture"
              [] HasAny(imaging_findings, {"avulsion", "segond"}) -> "red flag"
              [] OTHER -> Missing
        pain_quality == KwOf(AttrGetNone(pain_chars, "quality").ret)
        source2 ==
            CASE HasAny(pain_quality, {"mcmurray", "thessaly"}) -> "positive mcmurray"
              [] HasAny(pain_quality, {"catching", "locking", "mechanical"}) ->
                    "mechanical symptoms"
              [] OTHER -> Missing
        other_tx_desc == KwOf(AttrGetNone(other_treatments, "description").ret)
        notes == IF evidence_notes.t = "list" THEN evidence_notes.l ELSE <<>>
        text_sources ==
            notes
            \o (IF Truth(DictGet(imaging.d, "findings"))
                THEN <<Note(imaging_findings)>> ELSE <<>>)
            \o (IF Truth(DictGet(pain_chars.d, "quality"))
                THEN <<Note(pain_quality)>> ELSE <<>>)
            \o (IF Truth(DictGet(red_flags.d, "description"))
                THEN <<Note(KwOf(red_flags.d.description))>> ELSE <<>>)
    IN  IF red_flags.t # "dict" THEN Raised("AttributeError")
        ELSE IF Truth(DictGet(red_flags.d, "documented")) THEN Returned("red flag")
        ELSE IF source1 # Missing THEN Returned(source1)
        ELSE IF pain_chars.t # "dict" THEN Raised("AttributeError")
        ELSE IF source2 # Missing THEN Returned(source2)
        ELSE IF other_treatments.t # "dict" THEN Raised("AttributeError")
        ELSE IF HasAny(other_tx_desc, PostOpKeywords) THEN Returned("post-operative")
        ELSE IF ~Joinable(text_sources) THEN Raised("TypeError")
        ELSE Returned(indication_by_keyword(JoinKw(text_sources)))

\* " ".join(evidence).lower() if evidence else "": the keywords of the
\* joined notes; joining the characters of a single str leaves no keyword.
evidence_text(evidence) ==
    IF ~Truth(evidence) THEN Returned({})
    ELSE IF evidence.t = "list"
    THEN (IF Joinable(evidence.l) THEN Returned(JoinKw(evidence.l))
          ELSE Raised("TypeError"))
    ELSE IF IsStr(evidence) THEN Returned({})
    ELSE Raised("TypeError")

\* Indication of a raw clinical_indication str, by the words it holds.
map_raw_indication(raw_indication) ==
    LET raw_lower == KwOf(raw_indication)
    IN  CASE HasAny(raw_lower, {"meniscal", "meniscus"}) -> Text("meniscal tear")
          [] HasAny(raw_lower, {"mcmurray"}) -> Text("positive mcmurray")
          [] HasAny(raw_lower, {"red flag", "infection", "tumor", "fracture"}) ->
                Text("red flag")
          [] HasAny(raw_lower, {"post-op", "post-surgical", "postoperative"}) ->
                Text("post-operative")
          [] HasAny(raw_lower, {"mechanical"}) -> Text("meniscal tear")
          [] HasAny(raw_lower, {"instability"}) -> Text("meniscal tear")
          [] OTHER -> raw_indication

map_clinical_indication(raw_patient) ==
    LET red_flags == Get(raw_patient.d, "red_flags", PyDict(EmptyDict))
        evidence == evidence_text(Get(raw_patient.d, "evidence_notes", PyList(<<>>)))
        imaging == Get(raw_patient.d, "imaging", PyDict(EmptyDict))
        imaging_findings == KwOf(AttrGetNone(imaging, "findings").ret)
        conservative == Get(raw_patient.d, "conservative_therapy", PyDict(EmptyDict))
        other_treatments == AttrGet(conservative, "other_treatments", PyDict(EmptyDict))
        other_tx_desc == AttrGetNone(other_treatments.ret, "description")
        raw_indication == DictGet(raw_patient.d, "clinical_indication")
    IN  IF red_flags.t # "dict" THEN Raised("AttributeError")
        ELSE IF Truth(DictGet(red_flags.d, "documented")) THEN Returned(Text("red flag"))
        ELSE IF evidence.exc # "" THEN Raised(evidence.exc)
        ELSE IF imaging.t # "dict" THEN Raised("AttributeError")
        ELSE IF HasAny(imaging_findings,
                       {"meniscal tear", "meniscus tear", "torn meniscus", "meniscus"})
        THEN Returned(Text("meniscal tear"))
        ELSE IF HasAny(evidence.ret, {"locking", "giving-way", "giving way", "catching",
                                      "clicking", "popping", "mechanical"})
        THEN Returned(Text("meniscal tear"))
        ELSE IF HasAny(evidence.ret, {"mcmurray", "positive mcmurray"})
        THEN Returned(Text("positive mcmurray"))
        ELSE IF HasAny(evidence.ret, {"instability", "unstable"})
        THEN (IF HasAny(imaging_findings,
                        {"post-operative", "surgery", "surgical", "post-op"})
              THEN Returned(Text("post-operative"))
              ELSE Returned(Text("meniscal tear")))
        ELSE IF other_treatments.exc # "" THEN Raised(other_treatments.exc)
        ELSE IF other_tx_desc.exc # "" THEN Raised(other_tx_desc.exc)
        ELSE IF HasAny(KwOf(other_tx_desc.ret), PostOpKeywords)
        THEN Returned(Text("post-operative"))
        ELSE IF ~Truth(raw_indication) THEN Returned(PyNone)
        ELSE IF ~IsStr(raw_indication) THEN Raised("AttributeError")
        ELSE Returned(map_raw_indication(raw_indication))

wc_keywords ==
    {"workplace", "work-related", "workers comp", "workers' comp", "on the job",
     "job injury", "workplace injury", "workplace fall", "modified duty",
     "work injury", "injured at work", "occupational injury", "workman's comp"}

detect_workers_compensation(raw_patient) ==
    LET evidence == evidence_text(Get(raw_patient.d, "evidence_notes", PyList(<<>>)))
        functional_impairment ==
            Get(raw_patient.d, "functional_impairment", PyDict(EmptyDict))
        func_desc == AttrGetNone(functional_impairment, "description")
    IN  IF evidence.exc # "" THEN Raised(evidence.exc)
        ELSE IF func_desc.exc # "" THEN Raised(func_desc.exc)
        ELSE Returned(HasAny(evidence.ret \cup KwOf(func_desc.ret), wc_keywords))

\* The metadata defaults.
normalize_metadata(ds) ==
    LET metadata == AttrGet(ds, "_metadata", PyDict(EmptyDict))
        validation_passed == AttrGet(metadata.ret, "validation_passed", PyFalse)
        exc == FirstExc(<<metadata.exc, validation_passed.exc>>)
    IN  IF exc # "" THEN Raised(exc)
        ELSE Returned(
            [validation_passed |-> validation_passed.ret,
             hallucinations_detected |->
                Get(metadata.ret.d, "hallucinations_detected", PyInt(0)),
             clinical_notes_days_ago |->
                Get(metadata.ret.d, "clinical_notes_days_ago", PyInt(0))])

\* A pre-normalized chart is returned as it is; otherwise the fields are
\* read from evidence["requirements"] or from the chart itself, section by
\* section, and the first exception of a section ends the call.
normalize_patient_evidence(evidence) ==
    IF "normalized_data" \in DOMAIN evidence
    THEN Returned(evidence.normalized_data)
    ELSE
    LET data_source == IF "requirements" \in DOMAIN evidence
                       THEN evidence.requirements
                       ELSE PyDict(evidence)
        symptom == normalize_symptom_duration(data_source)
        conservative == normalize_conservative_therapy(data_source)
        imaging == normalize_imaging(data_source)
        functional == normalize_functional_impairment(data_source)
        sections == FirstExc(<<symptom.exc, conservative.exc, imaging.exc,
                               functional.exc>>)
        clinical_indication == extracted_indication(data_source)
        mapped_indication == map_clinical_indication(data_source)
        metadata == normalize_metadata(data_source)
        is_workers_compensation == detect_workers_compensation(data_source)
        exc == FirstExc(<<clinical_indication.exc, mapped_indication.exc,
                          metadata.exc, is_workers_compensation.exc>>)
    IN  IF sections # "" THEN Raised(sections)
        ELSE IF exc # "" THEN Raised(exc)
        ELSE Returned(PyDict(
            symptom.ret @@ conservative.ret @@ imaging.ret @@ functional.ret @@
            metadata.ret @@
            [clinical_indication |-> mapped_indication.ret,
             evidence_notes |-> Get(data_source.d, "evidence_notes", PyList(<<>>)),
             score |-> DictGet(evidence, "score"),
             missing_items |-> Get(evidence, "missing_items", PyList(<<>>)),
             filename |-> DictGet(evidence, "filename"),
             timestamp |-> DictGet(evidence, "timestamp"),
             is_workers_compensation |-> PyBool(is_workers_compensation.ret)]))

-----------------------------------------------------------------------------
(* normalized_custom.py: normalize_policy_criteria *)

Condition(f, op, v) == [field |-> f, operator |-> op, value |-> v]

CONTRAST_ONLY_KEYWORDS == {"creatinine", "egfr", "renal", "gadolinium", "contrast agent"}

\* The texts that are left after the contrast-only ones are skipped for the
\* non-contrast CPT code.
Kept(texts, cpt_code) ==
    SelectSeq(texts, LAMBDA text :
        ~(cpt_code = PyStr(<<"7", "3", "7", "2", "1">>)
          /\ HasAny(KwOf(text), CONTRAST_ONLY_KEYWORDS)))

\* Rule 1: the first prerequisite that mentions imaging; 60 days (2 months)
\* unless the text names a number of days ("30 days" is 1 month).
xray_requirement(prerequisites, cpt_code) ==
    LET hits == SelectSeq(Kept(prerequisites, cpt_code), LAMBDA text :
                    HasAny(KwOf(text), {"x-ray", "xray", "imaging"}))
        imaging_months == IF "30 days" \in KwOf(Head(hits)) THEN 1 ELSE 2
    IN  IF hits = <<>> THEN <<>>
        ELSE <<PyDict([id |-> "xray_requirement",
                       logic |-> "all",
                       conditions |->
                          <<Condition("imaging_documented", "eq", PyTrue),
                            Condition("imaging_type", "eq", PyStr(XRay)),
                            Condition("imaging_months_ago", "lte",
                                      PyInt(imaging_months))>>])>>

\* Rule 2: physical therapy, with a duration when a text that mentions it
\* names the weeks or the policy text holds "6 weeks".
physical_therapy_requirement(texts, all_text, cpt_code) ==
    LET hits == SelectSeq(Kept(texts, cpt_code), LAMBDA text :
                    HasAny(KwOf(text), {"physical therapy", "pt"}))
        with_weeks == "6 weeks" \in all_text
        attempted == <<Condition("pt_attempted", "eq", PyTrue)>>
        duration == <<Condition("pt_duration_weeks", "gte", PyInt(6))>>
    IN  IF hits = <<>> THEN <<>>
        ELSE <<PyDict([id |-> "physical_therapy_requirement",
                       logic |-> "all",
                       conditions |-> IF with_weeks THEN attempted \o duration
                                      ELSE attempted])>>

\* Rule 3: a medication trial.
medication_trial_requirement(texts, cpt_code) ==
    IF \E k \in 1..Len(Kept(texts, cpt_code)) :
            HasAny(KwOf(Kept(texts, cpt_code)[k]), {"medication", "nsaid", "analgesic"})
    THEN <<PyDict([id |-> "medication_trial_requirement",
                   logic |-> "all",
                   conditions |-> <<Condition("nsaid_documented", "eq", PyTrue)>>])>>
    ELSE <<>>

\* Rule 4: clinical notes within 30 days.
recent_clinical_notes(doc_requirements, cpt_code) ==
    IF \E k \in 1..Len(Kept(doc_requirements, cpt_code)) :
            "30 days" \in KwOf(Kept(doc_requirements, cpt_code)[k])
    THEN <<PyDict([id |-> "recent_clinical_notes",
                   logic |-> "all",
                   conditions |-> <<Condition("clinical_notes_days_ago", "lte",
                                              PyInt(30))>>])>>
    ELSE <<>>

\* The standard keyword of a payer's indication text, Missing when the
\* text maps to none.
normalize_indication(indication) ==
    LET indication_lower == KwOf(indication)
    IN  CASE HasAny(indication_lower, {"meniscal tear", "meniscus"}) -> "meniscal tear"
          [] HasAny(indication_lower, {"mechanical"}) -> "mechanical symptoms"
          [] HasAny(indication_lower, {"ligament", "acl", "pcl"}) -> "ligament rupture"
          [] HasAny(indication_lower, {"instability"}) -> "instability"
          [] HasAny(indication_lower, {"traumatic", "trauma"}) -> "traumatic injury"
          [] HasAny(indication_lower, {"mcmurray"}) -> "positive mcmurray"
          [] HasAny(indication_lower, {"post-operative", "surgery"}) -> "post-operative"
          [] HasAny(indication_lower, {"infection", "tumor", "fracture", "red flag"}) ->
                "red flag"
          [] OTHER -> Missing

\* list(dict.fromkeys(xs)): the first occurrence of every element, in order.
RECURSIVE Deduplicate(_)
Deduplicate(xs) ==
    IF xs = <<>> THEN <<>>
    ELSE LET init == Deduplicate(SubSeq(xs, 1, Len(xs) - 1))
             last == xs[Len(xs)]
         IN  IF \E k \in 1..Len(init) : init[k] = last THEN init
             ELSE Append(init, last)

\* Rule 5: the patient's indication is one of the payer's list.
clinical_indication_requirement(clinical_indications) ==
    IF ~Truth(clinical_indications) \/ IsStr(clinical_indications) THEN Returned(<<>>)
    ELSE IF clinical_indications.t # "list" THEN Raised("TypeError")
    ELSE IF ~Joinable(clinical_indications.l) THEN Raised("AttributeError")
    ELSE
    LET mapped == [k \in 1..Len(clinical_indications.l) |->
                      normalize_indication(clinical_indications.l[k])]
        normalized_indications == SelectSeq(mapped, LAMBDA m : m # Missing)
        deduplicated_indications == Deduplicate(normalized_indications)
    IN  IF normalized_indications = <<>> THEN Returned(<<>>)
        ELSE Returned(
            <<PyDict([id |-> "clinical_indication_requirement",
                      logic |-> "all",
                      conditions |->
                         <<Condition("clinical_indication", "in",
                              PyList([k \in 1..Len(deduplicated_indications) |->
                                         Text(deduplicated_indications[k])]))>>])>>)

\* Rule 8, always last.
evidence_quality ==
    PyDict([id |-> "evidence_quality",
            logic |-> "all",
            conditions |-> <<Condition("hallucinations_detected", "eq", PyInt(0)),
                             Condition("validation_passed", "eq", PyTrue)>>])

DEFAULT_PT_DURATION_WEEKS == 6

\* extract_policy_rules.py: the physical therapy rule gets the conditions
\* on pt_attempted and pt_duration_weeks that it lacks.
validate_policy_consistency(rules) ==
    [k \in 1..Len(rules) |->
        IF rules[k].d.id # "physical_therapy_requirement" THEN rules[k]
        ELSE LET conditions == rules[k].d.conditions
                 has(f) == \E c \in 1..Len(conditions) : conditions[c].field = f
                 attempted == IF has("pt_attempted") THEN <<>>
                              ELSE <<Condition("pt_attempted", "eq", PyTrue)>>
                 duration == IF has("pt_duration_weeks") THEN <<>>
                             ELSE <<Condition("pt_duration_weeks", "gte",
                                              PyInt(DEFAULT_PT_DURATION_WEEKS))>>
             IN  PyDict([rules[k].d EXCEPT
                            !.conditions = conditions \o attempted \o duration])]

\* len(x) needs a sized object.
Sized(v) == v.t \in {"str", "note", "list", "dict"}

\* A pre-normalized list of rules is filtered and returned. Otherwise the
\* policy object is the criteria themselves or criteria["rules"], and the
\* rules are generated from the texts of its coverage_criteria. The
\* descriptions of the generated rules are left out.
normalize_policy_criteria(criteria) ==
    IF "rules" \in DOMAIN criteria /\ criteria.rules.t = "list"
    THEN Returned(SelectSeq(criteria.rules.l, LAMBDA r :
                     r.t = "dict" /\ "id" \in DOMAIN r.d /\ "conditions" \in DOMAIN r.d))
    ELSE
    LET policy_obj == IF "coverage_criteria" \in DOMAIN criteria THEN PyDict(criteria)
                      ELSE Get(criteria, "rules", PyDict(EmptyDict))
        coverage == AttrGet(policy_obj, "coverage_criteria", PyDict(EmptyDict))
        prerequisites == AttrGet(coverage.ret, "prerequisites", PyList(<<>>))
        doc_requirements ==
            AttrGet(coverage.ret, "documentation_requirements", PyList(<<>>))
        context == Get(criteria, "context", PyList(<<>>))
        texts == prerequisites.ret.l \o doc_requirements.ret.l
        all_texts == texts \o (IF context.t = "list" THEN context.l ELSE <<>>)
        head == FirstExc(
            <<coverage.exc, prerequisites.exc,
              IF Sized(doc_requirements.ret) THEN "" ELSE "TypeError",
              IF prerequisites.ret.t = "list" /\ doc_requirements.ret.t = "list"
              THEN "" ELSE "TypeError">>)
        cpt_code == Get(policy_obj.d, "cpt_code", PyStr(<<>>))
        indication == clinical_indication_requirement(
                          Get(coverage.ret.d, "clinical_indications", PyList(<<>>)))
        rules_list ==
            xray_requirement(prerequisites.ret.l, cpt_code)
            \o physical_therapy_requirement(texts, JoinKw(all_texts), cpt_code)
            \o medication_trial_requirement(texts, cpt_code)
            \o recent_clinical_notes(doc_requirements.ret.l, cpt_code)
            \o indication.ret
            \o <<evidence_quality>>
    IN  IF head # "" THEN Raised(head)
        ELSE IF ~Joinable(all_texts) THEN Raised("TypeError")
        ELSE IF indication.exc # "" THEN Raised(indication.exc)
        ELSE Returned(validate_policy_consistency(rules_list))

-----------------------------------------------------------------------------
(* src/app/validation.py: validate *)

\* An error string, known by its prefix, its kind and the name it quotes.
Error(prefix, kind, name) == <<prefix, kind, name>>

VALID_REQUIREMENT_TYPES == {"any", "all", "count_gte"}
VALID_INPUT_TYPES == {"checkbox", "date", "number", "text", "checkbox_with_detail"}

\* The concatenation of a sequence of sequences.
RECURSIVE Concat(_)
Concat(seqs) == IF seqs = <<>> THEN <<>> ELSE Head(seqs) \o Concat(Tail(seqs))

\* One error for every field of the list (in order) that d lacks.
MissingFields(prefix, d, fields) ==
    Concat([k \in 1..Len(fields) |->
               IF fields[k] \in DOMAIN d THEN <<>>
               ELSE <<Error(prefix, "missing required field", fields[k])>>])

validate_items(section_prefix, items) ==
    Concat([k \in 1..Len(items) |->
        LET item == items[k]
            input_type == Get(item.d, "input_type", Missing)
        IN  IF item.t # "dict" THEN <<Error(section_prefix, "must be an object", "item")>>
            ELSE MissingFields(section_prefix, item.d, <<"field", "label", "input_type">>)
                 \o (IF StrTruthy(input_type) /\ input_type \notin VALID_INPUT_TYPES
                     THEN <<Error(section_prefix, "invalid input_type", input_type)>>
                     ELSE <<>>)])

\* The description's wording against the requirement_type, and the
\* threshold against the number of items; len() of items that are not a
\* list raises.
semantic_check(prefix, description, req_type, section) ==
    LET threshold == Get(section, "threshold", PyNone)
        items == Get(section, "items", PyList(<<>>))
        at_least == IF "at least N" \in KwOf(description) /\ req_type # "count_gte"
                    THEN <<Error(prefix, "description says 'at least N'", req_type)>>
                    ELSE <<>>
        all_of == IF "all of" \in KwOf(description) /\ req_type # "all"
                  THEN <<Error(prefix, "description says 'all of'", req_type)>>
                  ELSE <<>>
        counted == req_type = "count_gte" /\ IsNumeric(threshold)
    IN  IF ~IsStr(description) THEN Raised("AttributeError")
        ELSE IF counted /\ items.t # "list" THEN Raised("TypeError")
        ELSE Returned(
            at_least \o all_of
            \o (IF counted /\ NumOf(threshold) > Len(items.l)
                THEN <<Error(prefix, "threshold exceeds number of items", "threshold")>>
                ELSE <<>>))

\* The errors of one checklist section: required fields, requirement_type,
\* threshold, wording, items.
validate_section(section) ==
    IF section.t # "dict" THEN Raised("AttributeError")
    ELSE
    LET d == section.d
        prefix == Get(d, "id", "<section[i]>")
        req_type == Get(d, "requirement_type", Missing)
        threshold == Get(d, "threshold", PyNone)
        description == Get(d, "description", PyStr(<<>>))
        items == Get(d, "items", PyNone)
        semantic == semantic_check(prefix, description, req_type, d)
    IN  IF semantic.exc # "" THEN semantic
        ELSE Returned(
            MissingFields(prefix, d, <<"id", "title", "description", "requirement_type", "items">>)
            \o (IF StrTruthy(req_type) /\ req_type \notin VALID_REQUIREMENT_TYPES
                THEN <<Error(prefix, "invalid requirement_type", req_type)>>
                ELSE <<>>)
            \o (IF req_type # "count_gte" THEN <<>>
                ELSE IF threshold = PyNone
                THEN <<Error(prefix, "requires a field", "threshold")>>
                ELSE IF ~IsNumeric(threshold)
                THEN <<Error(prefix, "must be a number", "threshold")>>
                ELSE <<>>)
            \o semantic.ret
            \o (IF items.t # "list"
                THEN <<Error(prefix, "must be a list", "items")>>
                ELSE validate_items(prefix, items.l)))

\* The errors of one exception pathway; section_ids are the ids of the
\* checklist sections seen before.
validate_exception(exception, section_ids) ==
    IF exception.t # "dict" THEN Raised("AttributeError")
    ELSE
    LET d == exception.d
        prefix == Get(d, "id", "<exception[i]>")
        waives == Get(d, "waives", PyList(<<>>))
        req_type == Get(d, "requirement_type", Missing)
        items == Get(d, "items", PyNone)
    IN  Returned(
            MissingFields(prefix, d, <<"id", "title", "waives", "requirement_type", "items">>)
            \o (IF waives.t # "list"
                THEN <<Error(prefix, "must be a list", "waives")>>
                ELSE (IF waives.l = <<>>
                      THEN <<Error(prefix, "list must not be empty", "waives")>>
                      ELSE <<>>)
                     \o Concat([k \in 1..Len(waives.l) |->
                           IF waives.l[k] \in section_ids THEN <<>>
                           ELSE <<Error(prefix, "waives unknown section_id", waives.l[k])>>]))
            \o (IF req_type = "count_gte" /\ Get(d, "threshold", PyNone) = PyNone
                THEN <<Error(prefix, "requires a field", "threshold")>>
                ELSE <<>>)
            \o (IF items.t = "list" THEN validate_items(prefix, items.l) ELSE <<>>))

\* The outcomes of a loop body over a list, joined in order; the first
\* exception ends the loop.
RECURSIVE CollectErrors(_)
CollectErrors(outcomes) ==
    IF outcomes = <<>> THEN Returned(<<>>)
    ELSE IF Head(outcomes).exc # "" THEN Head(outcomes)
    ELSE LET rest == CollectErrors(Tail(outcomes))
         IN  IF rest.exc # "" THEN rest
             ELSE Returned(Head(outcomes).ret \o rest.ret)

\* validate(template): the list of errors of a compiled checklist.
validate(tmpl) ==
    LET given == Get(tmpl, "checklist_sections", PyNone)
        sections == IF given.t = "list" THEN given.l ELSE <<>>
        section_ids == {IF sections[k].t = "dict"
                        THEN Get(sections[k].d, "id", "<section[i]>")
                        ELSE Missing : k \in 1..Len(sections)}
        given_exceptions == Get(tmpl, "exception_pathways", PyList(<<>>))
        exceptions == IF given_exceptions.t = "list" THEN given_exceptions.l ELSE <<>>
        exclusions == Get(tmpl, "exclusions", PyList(<<>>))
        lists == <<"denial_prevention_tips", "submission_reminders">>
    IN  CollectErrors(
          <<Returned(
                Concat([k \in 1..3 |->
                    LET field == <<"payer", "cpt_code", "checklist_sections">>[k]
                    IN  IF field \in DOMAIN tmpl THEN <<>>
                        ELSE <<Error("", "Missing required top-level field", field)>>])
                \o (IF given.t # "list"
                    THEN <<Error("", "must be a list", "checklist_sections")>>
                    ELSE <<>>)),
            CollectErrors([k \in 1..Len(sections) |-> validate_section(sections[k])]),
            Returned(IF given_exceptions.t # "list"
                     THEN <<Error("", "must be a list", "exception_pathways")>>
                     ELSE <<>>),
            CollectErrors([k \in 1..Len(exceptions) |->
                        validate_exception(exceptions[k], section_ids)]),
            Returned(
                (IF exclusions.t # "list"
                 THEN <<Error("", "must be a list", "exclusions")>>
                 ELSE <<>>)
                \o Concat([k \in 1..2 |->
                    IF lists[k] \in DOMAIN tmpl /\ tmpl[lists[k]].t # "list"
                    THEN <<Error("", "must be a list", lists[k])>>
                    ELSE <<>>]))>>)

-----------------------------------------------------------------------------
(* src/backend/app/services/readiness.py: determine_verdict *)

\* The exception names looked for in exception_applied.  An exception text
\* is None, the empty str, or Note(kw) with kw the names it contains.
ExceptionNames == {"Workers' Compensation", "Exclusion", "Red Flag", "Acute Trauma"}

determine_verdict_score_first(readiness_score, exception_applied, rules_failed) ==
    IF readiness_score >= 80 THEN "LIKELY_TO_APPROVE"
    ELSE IF Truth(exception_applied)
            /\ HasAny(KwOf(exception_applied), {"Workers' Compensation", "Exclusion"})
    THEN "EXCLUDED"
    ELSE IF Truth(exception_applied)
            /\ HasAny(KwOf(exception_applied), {"Red Flag", "Acute Trauma"})
    THEN "LIKELY_TO_APPROVE"
    ELSE IF readiness_score >= 60 THEN "NEEDS_REVIEW"
    ELSE "LIKELY_TO_DENY"

determine_verdict(readiness_score, exception_applied, rules_failed) ==
    IF Truth(exception_applied)
       /\ HasAny(KwOf(exception_applied), {"Workers' Compensation", "Exclusion"})
    THEN "EXCLUDED"
    ELSE IF Truth(exception_applied)
            /\ HasAny(KwOf(exception_applied), {"Red Flag", "Acute Trauma"})
    THEN "LIKELY_TO_APPROVE"
    ELSE IF readiness_score >= 80 THEN "LIKELY_TO_APPROVE"
    ELSE IF readiness_score >= 60 THEN "NEEDS_REVIEW"
    ELSE "LIKELY_TO_DENY"

-----------------------------------------------------------------------------
(* src/backend/app/routers/orchestration.py: check_prior_auth, steps 6 and 7 *)

\* derive_verdict that looks at the score only.
derive_verdict_score_only(readiness_score, fail_count) ==
    IF readiness_score >= 80 THEN "LIKELY_TO_APPROVE"
    ELSE IF readiness_score < 50 \/ fail_count >= 2 THEN "LIKELY_TO_DENY"
    ELSE "NEEDS_REVIEW"

derive_verdict(readiness_score, fail_count) ==
    IF readiness_score >= 80 /\ fail_count = 0 THEN "LIKELY_TO_APPROVE"
    ELSE IF readiness_score < 50 \/ fail_count >= 2 THEN "LIKELY_TO_DENY"
    ELSE "NEEDS_REVIEW"

\* Step 7 on the outcome of step 6 (evaluate_all on the normalized patient
\* and policy).  The score is int(rules_met / total_rules * 100), 0 for no
\* rules (the float quotient truncates to the integer quotient for the
\* counts of the bounds); fail_count is the number of gaps; exception_applied
\* is always None; an exception of either step becomes an HTTPException
\* with status 500.
build_response(evaluation) ==
    LET report_made == evaluation.ret
        readiness_score ==
            IF report_made.total_rules > 0
            THEN (report_made.rules_met * 100) \div report_made.total_rules
            ELSE 0
        unmet == SelectSeq(report_made.results, LAMBDA r : ~r.met)
        gaps == [k \in 1..Len(unmet) |-> unmet[k].description]
        fail_count == Len(gaps)
        next_steps ==
            IF fail_count = 0
            THEN "All criteria met. This chart is ready for PA submission."
            ELSE IF fail_count = 1
            THEN "One criterion is unmet. Resolve the item in the gaps list before submitting."
            ELSE "Multiple criteria are unmet. Review the gaps list and update the chart before submitting."
    IN  IF evaluation.exc # "" THEN Raised("HTTPException")
        ELSE Returned([verdict |-> derive_verdict(readiness_score, fail_count),
                       readiness_score |-> readiness_score,
                       criteria |-> [k \in 1..Len(report_made.results) |->
                                        [criterion |-> report_made.results[k].description,
                                         status |-> IF report_made.results[k].met
                                                    THEN "PASS" ELSE "FAIL"]],
                       gaps |-> gaps,
                       next_steps |-> next_steps,
                       exception_applied |-> PyNone])

-----------------------------------------------------------------------------
(* The three entry points, each called once on inputs drawn at the start *)

InitCompare ==
    /\ cmp_args \in PatientValues \X CompareOperators \X Values
    /\ cmp_result = Pending
    /\ cond = EmptyDict
    /\ cond_result = Pending
    /\ chart = EmptyDict
    /\ chart_result = Pending
    /\ policy = EmptyDict
    /\ policy_result = Pending
    /\ patient_data = EmptyDict
    /\ policy_rules = <<>>
    /\ requested_cpt = ""
    /\ report = Pending
    /\ rule = EmptyDict
    /\ rule_result = Pending
    /\ template = EmptyDict
    /\ validation = Pending
    /\ verdict_args = <<0, PyNone, 0>>
    /\ verdict = Pending
    /\ response = Pending

Compare ==
    /\ cmp_result = Pending
    /\ cmp_result' = compare_values(cmp_args[1], cmp_args[2], cmp_args[3])
    /\ UNCHANGED <<patient_data, policy_rules, requested_cpt, report,
                   rule, rule_result, cmp_args, cond, cond_result,
                   chart, chart_result, policy, policy_result,
                   template, validation, verdict_args, verdict, response>>

NextCompare == Compare

SpecCompare == InitCompare /\ [][NextCompare]_vars

\* Fact maps with a nested "imaging" entry: absent, not a dict, a dict
\* without the next key, and dicts that hold the whole path.
ImagingFacts ==
    {EmptyDict,
     [imaging |-> PyStr(<<"a">>)],
     [imaging |-> PyDict(EmptyDict)],
     [imaging |-> PyDict([type |-> PyStr(<<"a">>)])],
     [imaging |-> PyDict([findings |-> PyDict(EmptyDict)])],
     [imaging |-> PyDict([findings |-> PyDict([kind |-> PyInt(1)])])]}

CondFacts ==
    {f @@ i : f \in DictsOver({"field_0"}, {PyInt(1), PyDict(EmptyDict)}),
              i \in ImagingFacts}

CondFields == {"field_0", "imaging.type", "imaging.findings.kind", "", NotAStr}

CondOperators == {"eq", "gte", "contains", "bogus", ""}

CondValues == {PyInt(1), PyStr(<<"a">>), PyList(<<>>)}

\* Condition dicts: each of field, operator and value present or absent.
CondInputs ==
    {f @@ o @@ v : f \in DictsOver({"field"}, CondFields),
                   o \in DictsOver({"operator"}, CondOperators),
                   v \in DictsOver({"value"}, CondValues)}

InitCond ==
    /\ patient_data \in CondFacts
    /\ cond \in CondInputs
    /\ cond_result = Pending
    /\ chart = EmptyDict
    /\ chart_result = Pending
    /\ policy = EmptyDict
    /\ policy_result = Pending
    /\ policy_rules = <<>>
    /\ requested_cpt = ""
    /\ report = Pending
    /\ rule = EmptyDict
    /\ rule_result = Pending
    /\ cmp_args = <<PyNone, "eq", PyNone>>
    /\ cmp_result = Pending
    /\ template = EmptyDict
    /\ validation = Pending
    /\ verdict_args = <<0, PyNone, 0>>
    /\ verdict = Pending
    /\ response = Pending

EvaluateCondition ==
    /\ cond_result = Pending
    /\ cond_result' = evaluate_condition(patient_data, cond)
    /\ UNCHANGED <<patient_data, policy_rules, requested_cpt, report,
                   rule, rule_result, cmp_args, cmp_result, cond,
                   chart, chart_result, policy, policy_result,
                   template, validation, verdict_args, verdict, response>>

NextCond == EvaluateCondition

SpecCond == InitCond /\ [][NextCond]_vars

InitRule ==
    /\ patient_data \in RuleFacts
    /\ rule \in RuleInputs
    /\ rule_result = Pending
    /\ policy_rules = <<>>
    /\ requested_cpt = ""
    /\ report = Pending
    /\ cmp_args = <<PyNone, "eq", PyNone>>
    /\ cmp_result = Pending
    /\ cond = EmptyDict
    /\ cond_result = Pending
    /\ chart = EmptyDict
    /\ chart_result = Pending
    /\ policy = EmptyDict
    /\ policy_result = Pending
    /\ template = EmptyDict
    /\ validation = Pending
    /\ verdict_args = <<0, PyNone, 0>>
    /\ verdict = Pending
    /\ response = Pending

EvaluateRule ==
    /\ rule_result = Pending
    /\ rule_result' = evaluate_rule(patient_data, rule)
    /\ UNCHANGED <<patient_data, policy_rules, requested_cpt, report,
                   rule, cmp_args, cmp_result, cond, cond_result,
                   chart, chart_result, policy, policy_result,
                   template, validation, verdict_args, verdict, response>>

NextRule == EvaluateRule

SpecRule == InitRule /\ [][NextRule]_vars

\* Raw charts: every optional sub-object absent, null, or a dict.
OneOf(key, vals) == {EmptyDict} \cup {[k \in {key} |-> v] : v \in vals}

TherapyDone ==
    PyDict([physical_therapy |->
                PyDict([attempted |-> PyTrue, duration_weeks |-> PyInt(6)]),
            nsaids |->
                PyDict([documented |-> PyTrue,
                        outcome |-> PyStr(<<"F", "a", "i", "l", "e", "d">>)])])

FlatCharts ==
    {ct @@ im @@ rf @@ md @@ en @@ pc :
        ct \in OneOf("conservative_therapy",
                     {PyNone, TherapyDone, PyDict([physical_therapy |-> PyNone])}),
        im \in OneOf("imaging",
                     {PyNone,
                      PyDict([documented |-> PyTrue, type |-> PyStr(<<"m", "r", "i">>),
                              months_ago |-> PyInt(2)]),
                      PyDict([documented |-> PyTrue, findings |-> PyNone]),
                      PyDict([findings |-> Note({"meniscal tear"})])}),
        rf \in OneOf("red_flags", {PyNone, PyDict([documented |-> PyTrue])}),
        md \in OneOf("_metadata",
                     {PyNone, PyDict([validation_passed |-> PyTrue,
                                      hallucinations_detected |-> PyInt(0)])}),
        en \in OneOf("evidence_notes", {PyList(<<Note({"workplace"})>>)}),
        pc \in OneOf("pain_characteristics", {PyNone})}

Charts ==
    FlatCharts
    \cup {ct @@ en @@ pc @@ im :
            ct \in OneOf("conservative_therapy",
                         {PyDict([other_treatments |->
                                     PyDict([description |-> Note({"post-op"})])])}),
            en \in OneOf("evidence_notes",
                         {PyList(<<Note({"mechanical"})>>),
                          PyList(<<Note({"mcmurray"})>>)}),
            pc \in OneOf("pain_characteristics",
                         {PyDict([quality |-> Note({"mcmurray"})]),
                          PyDict([quality |-> Note({"locking"})])}),
            im \in OneOf("imaging", {PyDict([findings |-> Note({"meniscal tear"})])})}
    \cup {[requirements |-> r] :
            r \in {PyNone, PyDict(EmptyDict),
                   PyDict([symptom_duration_months |-> PyInt(1)])}}
    \cup {[normalized_data |-> n] :
            n \in {PyNone, PyDict([pt_attempted |-> PyTrue])}}

\* Raw policies: a coverage_criteria that is null, empty, sparse or full,
\* given directly or under "rules", and the other shapes of "rules".
FullCoverage ==
    PyDict([prerequisites |->
                PyList(<<Note({"renal", "x-ray"}), Note({"x-ray", "30 days"}),
                         Note({"physical therapy"})>>),
            documentation_requirements |->
                PyList(<<Note({"30 days"}), Note({"nsaid"})>>),
            clinical_indications |->
                PyList(<<Note({"meniscal tear"}), Note({"mcmurray"}),
                         Note({"meniscus"})>>)])

Coverages ==
    {PyNone, PyDict(EmptyDict), PyDict([prerequisites |-> PyNone]),
     PyDict([documentation_requirements |-> PyNone]),
     PyDict([clinical_indications |-> PyList(<<PyNone>>)]),
     FullCoverage}

PolicyObjects ==
    {cc @@ cpt : cc \in OneOf("coverage_criteria", Coverages),
                 cpt \in OneOf("cpt_code", {PyStr(<<"7", "3", "7", "2", "1">>)})}

Policies ==
    {po @@ cx : po \in PolicyObjects \ {EmptyDict},
                cx \in OneOf("context", {PyNone, PyList(<<Note({"6 weeks"})>>)})}
    \cup {[rules |-> r] :
            r \in {PyNone, PyStr(<<"a">>), PyInt(1), PyList(<<>>),
                   PyList(<<PyNone, PyDict([id |-> "rule_a"]),
                            PyDict([id |-> "rule_a", logic |-> "all",
                                    conditions |-> <<EqTrue("field_0")>>])>>)}
                  \cup {PyDict(po) : po \in PolicyObjects}}
    \cup {EmptyDict}

InitNormalize ==
    /\ chart \in Charts
    /\ chart_result = Pending
    /\ policy \in Policies
    /\ policy_result = Pending
    /\ patient_data = EmptyDict
    /\ policy_rules = <<>>
    /\ requested_cpt = ""
    /\ report = Pending
    /\ rule = EmptyDict
    /\ rule_result = Pending
    /\ cond = EmptyDict
    /\ cond_result = Pending
    /\ cmp_args = <<PyNone, "eq", PyNone>>
    /\ cmp_result = Pending
    /\ template = EmptyDict
    /\ validation = Pending
    /\ verdict_args = <<0, PyNone, 0>>
    /\ verdict = Pending
    /\ response = Pending

NormalizePatient ==
    /\ chart_result = Pending
    /\ chart_result' = normalize_patient_evidence(chart)
    /\ UNCHANGED <<patient_data, policy_rules, requested_cpt, report,
                   rule, rule_result, cmp_args, cmp_result, cond, cond_result,
                   chart, policy, policy_result,
                   template, validation, verdict_args, verdict, response>>

NormalizePolicy ==
    /\ policy_result = Pending
    /\ policy_result' = normalize_policy_criteria(policy)
    /\ UNCHANGED <<patient_data, policy_rules, requested_cpt, report,
                   rule, rule_result, cmp_args, cmp_result, cond, cond_result,
                   chart, chart_result, policy,
                   template, validation, verdict_args, verdict, response>>

NextNormalize == NormalizePatient \/ NormalizePolicy

SpecNormalize == InitNormalize /\ [][NextNormalize]_vars

Init ==
    /\ patient_data \in PolicyFacts
    /\ policy_rules \in PolicyRuleLists
    /\ requested_cpt = ""
    /\ report = Pending
    /\ rule = EmptyDict
    /\ rule_result = Pending
    /\ cmp_args = <<PyNone, "eq", PyNone>>
    /\ cmp_result = Pending
    /\ cond = EmptyDict
    /\ cond_result = Pending
    /\ chart = EmptyDict
    /\ chart_result = Pending
    /\ policy = EmptyDict
    /\ policy_result = Pending
    /\ template = EmptyDict
    /\ validation = Pending
    /\ verdict_args = <<0, PyNone, 0>>
    /\ verdict = Pending
    /\ response = Pending

EvaluateAll(cpt) ==
    /\ report = Pending
    /\ requested_cpt' = cpt
    /\ report' = evaluate_all(patient_data, policy_rules, cpt)
    /\ UNCHANGED <<patient_data, policy_rules, rule, rule_result,
                   cmp_args, cmp_result, cond, cond_result,
                   chart, chart_result, policy, policy_result,
                   template, validation, verdict_args, verdict, response>>

Next == \E cpt \in Cpts : EvaluateAll(cpt)

Spec == Init /\ [][Next]_vars

-----------------------------------------------------------------------------
(* Validating a compiled checklist *)

MaxSections == 2

MeniscalTear ==
    PyDict([field |-> "meniscal_tear", label |-> "Meniscal Tear",
            input_type |-> "checkbox"])

\* The section of test_valid_template_passes.
EligibleDiagnosis ==
    PyDict([id |-> "eligible_diagnosis", title |-> "Eligible Diagnosis",
            description |-> Note({}), requirement_type |-> "any",
            items |-> PyList(<<MeniscalTear>>)])

ChecklistSections ==
    {EligibleDiagnosis,
     PyDict([id |-> "conservative", title |-> "Conservative Treatment",
             description |-> Note({"at least N"}),
             requirement_type |-> "count_gte",
             items |-> PyList(<<MeniscalTear>>)]),
     PyDict([id |-> "conservative", title |-> "Conservative Treatment",
             description |-> Note({"at least N"}),
             requirement_type |-> "count_gte", threshold |-> PyInt(2),
             items |-> PyList(<<MeniscalTear>>)]),
     PyDict([id |-> "imaging", title |-> "Imaging",
             description |-> Note({"all of"}), requirement_type |-> "any",
             items |-> PyList(<<MeniscalTear>>)]),
     PyDict([id |-> "imaging", description |-> Note({"at least N"}),
             requirement_type |-> "sometimes",
             items |-> PyList(<<MeniscalTear, PyNone>>)]),
     PyDict([id |-> "conservative", title |-> "Conservative Treatment",
             description |-> Note({}),
             requirement_type |-> "count_gte", threshold |-> PyInt(1),
             items |-> PyNone]),
     PyDict([id |-> "imaging", title |-> "Imaging",
             description |-> PyNone, requirement_type |-> "all",
             items |-> PyList(<<MeniscalTear>>)])}

ExceptionPathways ==
    {PyDict([id |-> "red_flag", title |-> "Red Flag",
             waives |-> PyList(<<"eligible_diagnosis">>),
             requirement_type |-> "any", items |-> PyList(<<i>>)]) :
        i \in {MeniscalTear,
             PyDict([field |-> "meniscal_tear", input_type |-> "checkbox"]),
             PyDict([field |-> "meniscal_tear", label |-> "Meniscal Tear",
                     input_type |-> "radio"]),
             PyNone}}
    \cup {PyDict([id |-> "red_flag", title |-> "Red Flag",
                  waives |-> PyList(<<>>),
                  requirement_type |-> "count_gte",
                  items |-> PyList(<<MeniscalTear>>)])}

Templates ==
    {payer @@ cpt @@ lcd @@ sections @@ pathways @@ exclusions @@ tips @@ reminders :
        payer \in OneOf("payer", {Text("medicare")}),
        cpt \in OneOf("cpt_code", {Text("73721")}),
        lcd \in OneOf("lcd_code", {Text("L36007")}),
        sections \in OneOf("checklist_sections",
                           {PyNone} \cup {PyList(l) :
                                l \in SeqsUpTo(ChecklistSections, MaxSections)}),
        pathways \in OneOf("exception_pathways",
                           {PyNone} \cup {PyList(l) :
                                l \in SeqsUpTo(ExceptionPathways, 1)}),
        exclusions \in OneOf("exclusions", {PyNone, PyList(<<>>)}),
        tips \in OneOf("denial_prevention_tips", {PyNone, PyList(<<>>)}),
        reminders \in OneOf("submission_reminders", {PyList(<<>>)})}

InitValidate ==
    /\ template \in Templates
    /\ validation = Pending
    /\ patient_data = EmptyDict
    /\ policy_rules = <<>>
    /\ requested_cpt = ""
    /\ report = Pending
    /\ rule = EmptyDict
    /\ rule_result = Pending
    /\ cond = EmptyDict
    /\ cond_result = Pending
    /\ cmp_args = <<PyNone, "eq", PyNone>>
    /\ cmp_result = Pending
    /\ chart = EmptyDict
    /\ chart_result = Pending
    /\ policy = EmptyDict
    /\ policy_result = Pending
    /\ verdict_args = <<0, PyNone, 0>>
    /\ verdict = Pending
    /\ response = Pending

Validate ==
    /\ validation = Pending
    /\ validation' = validate(template)
    /\ UNCHANGED <<patient_data, policy_rules, requested_cpt, report,
                   rule, rule_result, cmp_args, cmp_result, cond, cond_result,
                   chart, chart_result, policy, policy_result,
                   template, verdict_args, verdict, response>>

SpecValidate == InitValidate /\ [][Validate]_vars

-----------------------------------------------------------------------------
(* Deriving a verdict from a score and an exception *)

MaxScore == 100
MaxFailed == 1

InitVerdict ==
    /\ verdict_args \in (0..MaxScore)
                       \X ({PyNone, PyStr(<<>>)}
                           \cup {Note(kw) : kw \in SUBSET ExceptionNames})
                       \X (0..MaxFailed)
    /\ verdict = Pending
    /\ patient_data = EmptyDict
    /\ policy_rules = <<>>
    /\ requested_cpt = ""
    /\ report = Pending
    /\ rule = EmptyDict
    /\ rule_result = Pending
    /\ cond = EmptyDict
    /\ cond_result = Pending
    /\ cmp_args = <<PyNone, "eq", PyNone>>
    /\ cmp_result = Pending
    /\ chart = EmptyDict
    /\ chart_result = Pending
    /\ policy = EmptyDict
    /\ policy_result = Pending
    /\ template = EmptyDict
    /\ validation = Pending
    /\ response = Pending

DetermineVerdict ==
    /\ verdict = Pending
    /\ verdict' = Returned(determine_verdict(verdict_args[1], verdict_args[2],
                                             verdict_args[3]))
    /\ UNCHANGED <<patient_data, policy_rules, requested_cpt, report,
                   rule, rule_result, cmp_args, cmp_result, cond, cond_result,
                   chart, chart_result, policy, policy_result,
                   template, validation, verdict_args, response>>

SpecVerdict == InitVerdict /\ [][DetermineVerdict]_vars

-----------------------------------------------------------------------------
(* The check_prior_auth pipeline from the normalized inputs on *)

MaxPipelineRules == 5

\* Normalized policies of the pipeline: two rules on one fact each, and a
\* rule whose condition names no field.
PipelineRulePool ==
    {[id |-> "rule_a", description |-> "criterion a", logic |-> "all",
      conditions |-> <<EqTrue("field_0")>>],
     [id |-> "rule_b", logic |-> "all", conditions |-> <<EqTrue("field_1")>>],
     [id |-> "broken", logic |-> "all",
      conditions |-> <<[operator |-> "eq", value |-> PyTrue]>>]}

InitPipeline ==
    /\ patient_data \in
          {f @@ wc : f \in [{"field_0", "field_1"} -> {PyTrue, PyFalse}],
                     wc \in DictsOver({"is_workers_compensation"}, {PyTrue, PyFalse})}
    /\ policy_rules \in SeqsUpTo(PipelineRulePool, MaxPipelineRules)
    /\ requested_cpt = ""
    /\ report = Pending
    /\ response = Pending
    /\ rule = EmptyDict
    /\ rule_result = Pending
    /\ cond = EmptyDict
    /\ cond_result = Pending
    /\ cmp_args = <<PyNone, "eq", PyNone>>
    /\ cmp_result = Pending
    /\ chart = EmptyDict
    /\ chart_result = Pending
    /\ policy = EmptyDict
    /\ policy_result = Pending
    /\ template = EmptyDict
    /\ validation = Pending
    /\ verdict_args = <<0, PyNone, 0>>
    /\ verdict = Pending

CheckPriorAuth ==
    /\ response = Pending
    /\ report' = evaluate_all(patient_data, policy_rules, "")
    /\ response' = build_response(report')
    /\ UNCHANGED <<patient_data, policy_rules, requested_cpt,
                   rule, rule_result, cmp_args, cmp_result, cond, cond_result,
                   chart, chart_result, policy, policy_result,
                   template, validation, verdict_args, verdict>>

SpecPipeline == InitPipeline /\ [][CheckPriorAuth]_vars

-----------------------------------------------------------------------------
(* What the specification says a rule's outcome is *)

Range(seq) == {seq[i] : i \in 1..Len(seq)}

ConditionsOf(r) == Get(r, "conditions", <<>>)

\* Number of conditions of r that evaluate to true on the fact map.
TrueCount(data, r) ==
    Cardinality({i \in 1..Len(ConditionsOf(r)) :
                    evaluate_condition(data, ConditionsOf(r)[i]).ret})

\* A rule's conditions are met under its logic (section 4.3 of the spec).
ClaimedMet(data, r) ==
    LET lg == Get(r, "logic", "all")
        N == Len(ConditionsOf(r))
    IN  /\ N >= 1
        /\ CASE lg = "all" -> TrueCount(data, r) = N
             [] lg = "any" -> TrueCount(data, r) >= 1
             [] lg = "count_gte" -> TrueCount(data, r) >= r.threshold
             [] lg = "count_lte" -> TrueCount(data, r) <= r.threshold
             [] OTHER -> FALSE

ExclusionFlagged(r) == Get(r, "exclusion", FALSE)
ExceptionFlagged(r) == Get(r, "exception_pathway", FALSE)
Unflagged(r) == ~ExclusionFlagged(r) /\ ~ExceptionFlagged(r)

RulesOf == Range(policy_rules)
IsWorkersComp == Truthy(DictGet(patient_data, "is_workers_compensation"))
NoExclusionMet ==
    /\ ~IsWorkersComp
    /\ \A r \in RulesOf : ExclusionFlagged(r) => ~ClaimedMet(patient_data, r)

\* Union of the overrides of the exception rules whose conditions are met.
ClaimedOverrides ==
    UNION {Range(Get(r, "overrides", <<>>)) :
              r \in {x \in RulesOf : ExceptionFlagged(x) /\ ClaimedMet(patient_data, x)}}

RuleEvaluated == rule_result # Pending
ReportMade == report # Pending
ReportReturned == report # Pending /\ report.exc = ""

-----------------------------------------------------------------------------
(* Claims *)

\* C1: for a rule with logic count_gte, threshold T and N >= 1 conditions,
\* evaluate_rule returns met = true iff the number of true conditions is >= T.
C1_CountGte ==
    (/\ RuleEvaluated
     /\ Get(rule, "logic", "all") = "count_gte"
     /\ Len(ConditionsOf(rule)) >= 1)
    => /\ rule_result.exc = ""
       /\ rule_result.ret.met <=> (TrueCount(patient_data, rule) >= rule.threshold)

\* C2: for a rule with logic count_lte, threshold T and N >= 1 conditions,
\* evaluate_rule returns met = true iff the number of true conditions is <= T.
C2_CountLte ==
    (/\ RuleEvaluated
     /\ Get(rule, "logic", "all") = "count_lte"
     /\ Len(ConditionsOf(rule)) >= 1)
    => /\ rule_result.exc = ""
       /\ rule_result.ret.met <=> (TrueCount(patient_data, rule) <= rule.threshold)

\* C3: for a rule with at least one condition, evaluate_rule returns met = true
\* under logic all iff every condition evaluates to true, and under logic any
\* iff at least one condition evaluates to true.
C3_AllAny ==
    (/\ RuleEvaluated
     /\ "logic" \in DOMAIN rule
     /\ rule.logic \in {"all", "any"}
     /\ Len(ConditionsOf(rule)) >= 1)
    => /\ rule_result.exc = ""
       /\ rule.logic = "all" =>
            (rule_result.ret.met <=>
                \A i \in 1..Len(rule.conditions) :
                    evaluate_condition(patient_data, rule.conditions[i]).ret)
       /\ rule.logic = "any" =>
            (rule_result.ret.met <=>
                \E i \in 1..Len(rule.conditions) :
                    evaluate_condition(patient_data, rule.conditions[i]).ret)

\* An any-rule met although one of its conditions is false.
C3_Witness ==
    /\ RuleEvaluated
    /\ "logic" \in DOMAIN rule
    /\ rule.logic = "any"
    /\ Len(ConditionsOf(rule)) >= 2
    /\ rule_result.exc = ""
    /\ rule_result.ret.met
    /\ TrueCount(patient_data, rule) < Len(ConditionsOf(rule))

\* C4: when the rule list holds an exclusion-flagged rule whose conditions are
\* met, evaluate_all returns excluded = true, all_criteria_met = false and
\* total_rules = 1 with a single result, whatever the other rules are.
C4_ExclusionShortCircuit ==
    (/\ ReportMade
     /\ \E r \in RulesOf : ExclusionFlagged(r) /\ ClaimedMet(patient_data, r))
    => /\ report.exc = ""
       /\ report.ret.excluded
       /\ ~report.ret.all_criteria_met
       /\ report.ret.total_rules = 1
       /\ Len(report.ret.results) = 1

\* C5: when no exclusion rule is met, evaluate_all returns excluded = false,
\* and all_criteria_met is true whenever every rule that is neither
\* exclusion-flagged nor exception-flagged is met.
C5_UnmetExclusionNotAFailure ==
    (/\ ReportMade
     /\ NoExclusionMet
     /\ \E r \in RulesOf : Unflagged(r)
     /\ \A r \in RulesOf : Unflagged(r) => ClaimedMet(patient_data, r))
    => /\ report.exc = ""
       /\ ~report.ret.excluded
       /\ report.ret.all_criteria_met

\* C6: when a met exception rule overrides rule_x and every other standard
\* rule is met, all_criteria_met is true even though rule_x's own conditions
\* are false.
C6_ExceptionOverride ==
    (/\ ReportMade
     /\ NoExclusionMet
     /\ \E x \in RulesOf : /\ Unflagged(x)
                           /\ x.id \in ClaimedOverrides
                           /\ ~ClaimedMet(patient_data, x)
     /\ \A r \in RulesOf : (Unflagged(r) /\ r.id \notin ClaimedOverrides)
                              => ClaimedMet(patient_data, r))
    => /\ report.exc = ""
       /\ report.ret.all_criteria_met

\* C7: every non-excluded report has an active_overrides field equal, as a
\* set, to the union of the overrides of the met exception rules; when it is
\* empty every standard rule is evaluated against its own conditions.
C7_ActiveOverrides ==
    (ReportReturned /\ ~report.ret.excluded)
    => /\ "active_overrides" \in DOMAIN report.ret
       /\ Range(report.ret.active_overrides) = ClaimedOverrides
       /\ ClaimedOverrides = {} =>
            \A r \in RulesOf : Unflagged(r) =>
                \A j \in 1..Len(report.ret.results) :
                    report.ret.results[j].rule_id = r.id =>
                        (report.ret.results[j].met <=> ClaimedMet(patient_data, r))

\* C8: a standard rule whose id is in active_overrides is reported, counts
\* toward total_rules and rules_met, and is never reported as failed.
C8_WaivedCountsAsMet ==
    (ReportReturned /\ ~report.ret.excluded)
    => \A r \in RulesOf : (Unflagged(r) /\ r.id \in ClaimedOverrides) =>
          /\ \E j \in 1..Len(report.ret.results) : report.ret.results[j].rule_id = r.id
          /\ \A j \in 1..Len(report.ret.results) :
                report.ret.results[j].rule_id = r.id => report.ret.results[j].met
          /\ report.ret.total_rules >= 1
          /\ report.ret.rules_met >= 1

\* C9: whenever is_workers_compensation is true, evaluate_all returns
\* excluded = true, all_criteria_met = false, a non-null exclusion_reason,
\* total_rules = 1, rules_met = 0 and the single exclusion entry as results,
\* for every rule list and every other fact.
C9_WorkersCompensation ==
    (ReportMade /\ DictGet(patient_data, "is_workers_compensation") = PyTrue)
    => /\ report.exc = ""
       /\ report.ret.excluded
       /\ ~report.ret.all_criteria_met
       /\ report.ret.exclusion_reason.t # "none"
       /\ report.ret.total_rules = 1
       /\ report.ret.rules_met = 0
       /\ Len(report.ret.results) = 1
       /\ report.ret.results[1].rule_id = "workers_compensation_exclusion"

\* A workers'-compensation case excluded with a full rule list, one of whose
\* rules could not have been evaluated, and a CPT code requested.
C9_Witness ==
    /\ ReportReturned
    /\ DictGet(patient_data, "is_workers_compensation") = PyTrue
    /\ report.ret.excluded
    /\ Len(policy_rules) = MaxRules
    /\ \E r \in RulesOf : r.id = "broken"
    /\ \E r \in RulesOf : r.id = "rule_a" /\ ClaimedMet(patient_data, r)
    /\ requested_cpt # ""

\* C10: for a patient value of None, compare_values returns true only when
\* the operator is eq and the threshold is None or False, and returns false
\* for every other operator and threshold.
C10_NoneCompare ==
    (cmp_result # Pending /\ cmp_args[1] = PyNone)
    => /\ cmp_result.exc = ""
       /\ cmp_result.ret <=>
            (cmp_args[2] = "eq" /\ (cmp_args[3] = PyNone \/ cmp_args[3] = PyFalse))

\* None compared eq against False is true.
C10_Witness ==
    /\ cmp_result # Pending
    /\ cmp_args = <<PyNone, "eq", PyFalse>>
    /\ cmp_result.exc = ""
    /\ cmp_result.ret

\* Two characters are the same letter up to case.
CasePairs == {<<"A", "a">>, <<"B", "b">>}
SameLetter(c, d) == c = d \/ <<c, d>> \in CasePairs \/ <<d, c>> \in CasePairs

\* s[i..j] is s without its leading and trailing blanks.
IsCore(s, i, j) ==
    /\ \A k \in 1..Len(s) : (k < i \/ k > j) => s[k] = " "
    /\ i <= j => (s[i] # " " /\ s[j] # " ")
    /\ i > j => (i = 1 /\ j = 0)

\* C11: for two string operands, eq is case-insensitive and ignores leading
\* and trailing whitespace: it returns true iff the strings are equal after
\* lower-casing and trimming.
C11_StringEq ==
    (/\ cmp_result # Pending
     /\ cmp_args[2] = "eq"
     /\ cmp_args[1].t = "str"
     /\ cmp_args[3].t = "str")
    => /\ cmp_result.exc = ""
       /\ cmp_result.ret <=>
            LET a == cmp_args[1].s
                b == cmp_args[3].s
            IN  \E i1 \in 1..(Len(a) + 1), j1 \in 0..Len(a),
                   i2 \in 1..(Len(b) + 1), j2 \in 0..Len(b) :
                    /\ IsCore(a, i1, j1)
                    /\ IsCore(b, i2, j2)
                    /\ j1 - i1 = j2 - i2
                    /\ \A k \in 0..(j1 - i1) : SameLetter(a[i1 + k], b[i2 + k])

\* "A " eq "a" is true.
C11_Witness ==
    /\ cmp_result # Pending
    /\ cmp_args = <<PyStr(<<"A", " ">>), "eq", PyStr(<<"a">>)>>
    /\ cmp_result.exc = ""
    /\ cmp_result.ret

\* The kind of operands Python orders among themselves.
OrderKind(v) == IF IsNumeric(v) THEN "number" ELSE v.t

\* The comparison an ordering operator stands for, on two integers.
NumCompare(operator, x, y) ==
    CASE operator = "gte" -> x >= y
      [] operator = "gt" -> x > y
      [] operator = "lte" -> x <= y
      [] operator = "lt" -> x < y

\* C12 as stated: gte, gt, lte and lt compare numbers, and return false
\* without raising whenever either operand is not a number.
C12_NonNumericIsFalse ==
    (cmp_result # Pending /\ cmp_args[2] \in OrderOperators)
    => /\ cmp_result.exc = ""
       /\ (IsNumeric(cmp_args[1]) /\ IsNumeric(cmp_args[3])) =>
            (cmp_result.ret <=>
                NumCompare(cmp_args[2], NumOf(cmp_args[1]), NumOf(cmp_args[3])))
       /\ (~IsNumeric(cmp_args[1]) \/ ~IsNumeric(cmp_args[3])) => ~cmp_result.ret

\* C12 as amended: gte, gt, lte and lt never raise; two numbers are compared
\* numerically; operands of different kinds (a number, a str, a list, a dict,
\* None) and two dicts give false; two strs are ordered lexicographically.
C12_OrderingNeverRaises ==
    (cmp_result # Pending /\ cmp_args[2] \in OrderOperators)
    => /\ cmp_result.exc = ""
       /\ (IsNumeric(cmp_args[1]) /\ IsNumeric(cmp_args[3])) =>
            (cmp_result.ret <=>
                NumCompare(cmp_args[2], NumOf(cmp_args[1]), NumOf(cmp_args[3])))
       /\ (\/ OrderKind(cmp_args[1]) # OrderKind(cmp_args[3])
           \/ cmp_args[1].t \in {"none", "dict"}) => ~cmp_result.ret
       /\ (cmp_args[1].t = "str" /\ cmp_args[3].t = "str") =>
            (cmp_result.ret <=>
                NumCompare(cmp_args[2], StrCmp(cmp_args[1].s, cmp_args[3].s), 0))

\* A str against an int under lte: False, no exception.
C12_Witness ==
    /\ cmp_result # Pending
    /\ cmp_args = <<PyStr(<<"a">>), "lte", PyInt(1)>>
    /\ cmp_result.exc = ""
    /\ ~cmp_result.ret

\* C13 as stated: for an operator outside the nine known ones, compare_values
\* raises for every patient value, None included, and every threshold.
C13_UnknownOperatorAlwaysRaises ==
    (cmp_result # Pending /\ cmp_args[2] \notin Operators)
    => cmp_result.exc = "ValueError"

\* C13 as amended: for an operator outside the nine known ones, compare_values
\* raises ValueError for every patient value that is not None and every
\* threshold; for a patient value of None it returns False.
C13_UnknownOperator ==
    (cmp_result # Pending /\ cmp_args[2] \notin Operators)
    => /\ cmp_args[1].t # "none" => cmp_result.exc = "ValueError"
       /\ cmp_args[1].t = "none" => (cmp_result.exc = "" /\ ~cmp_result.ret)

\* An unknown operator on two equal strs raises.
C13_Witness ==
    /\ cmp_result # Pending
    /\ cmp_args = <<PyStr(<<"a">>), "bogus", PyStr(<<"a">>)>>
    /\ cmp_result.exc = "ValueError"

\* Evaluation of the condition: lookup of the field, then the comparison.
CondEvaluated == cond_result # Pending

CondField == Get(cond, "field", Missing)

CondOperator == Get(cond, "operator", Missing)

\* C14: evaluate_condition never raises: a dotted path with a missing
\* intermediate key resolves to null, and every exception of the field
\* resolution or of the comparison (unknown operator, malformed field) is
\* caught and the condition is reported as false.
C14_ConditionNeverRaises ==
    CondEvaluated =>
        /\ cond_result.exc = ""
        /\ (CondOperator = "bogus" => ~cond_result.ret)
        /\ (CondField = NotAStr => ~cond_result.ret)

\* C15: evaluate_all is exception-safe: an error while evaluating one rule
\* or while running an advisory check never propagates out of evaluate_all;
\* the report is returned and has one result for every rule of the list.
C15_EvaluateAllExceptionSafe ==
    ReportMade =>
        /\ report.exc = ""
        /\ Len(report.ret.results) = Len(policy_rules)

\* C16: a rule with no conditions is never met: for every logic and every
\* threshold, evaluate_rule on an empty (or absent) conditions list returns
\* met = false with the detail "No conditions specified".
C16_NoConditionsNeverMet ==
    (RuleEvaluated /\ ConditionsOf(rule) = <<>>) =>
        /\ rule_result.exc = ""
        /\ ~rule_result.ret.met
        /\ "details" \in DOMAIN rule_result.ret
        /\ rule_result.ret.details = "No conditions specified"

\* count_gte with threshold 0 on an empty conditions list was evaluated.
C16_Witness ==
    /\ RuleEvaluated
    /\ ConditionsOf(rule) = <<>>
    /\ "conditions" \in DOMAIN rule
    /\ Get(rule, "logic", "all") = "count_gte"
    /\ Get(rule, "threshold", 1) = 0
    /\ ~rule_result.ret.met

\* A rule of the list lacks the "conditions" key.
LacksConditions == \E r \in RulesOf : "conditions" \notin DOMAIN r

\* The imaging facts read by the advisory check are absent or well formed.
AdvisoryWellFormed == DictGet(patient_data, "imaging_type").t \in {"none", "str"}

\* C17: evaluate_all fails hard (propagates an error instead of returning a
\* report) when a rule of the list lacks the conditions key, and does not
\* raise for rules whose conditions key is present, whatever its content.
C17_FailsHardOnMissingStructure ==
    (ReportMade /\ AdvisoryWellFormed /\ ~IsWorkersComp) =>
        (report.exc # "" <=> LacksConditions)

\* The fields of a report that the advisory pass must leave alone.
Blocking(r) ==
    [results |-> r.results,
     all_criteria_met |-> r.all_criteria_met,
     excluded |-> r.excluded,
     exclusion_reason |-> r.exclusion_reason,
     total_rules |-> r.total_rules,
     rules_met |-> r.rules_met,
     rules_failed |-> r.rules_failed]

\* C18: the advisory pass is non-blocking: the results, all_criteria_met,
\* excluded, exclusion_reason and rule counts returned by evaluate_all are
\* the same for every requested_cpt as for the empty default; only the
\* warnings may differ.
C18_AdvisoryNonBlocking ==
    ReportMade =>
        LET default == evaluate_all(patient_data, policy_rules, "")
        IN  /\ report.exc = default.exc
            /\ report.exc = "" => Blocking(report.ret) = Blocking(default.ret)

\* The sub-objects of a chart or policy that the claim calls optional.
ChartNormalized == chart_result # Pending
PolicyNormalized == policy_result # Pending

\* C20: normalize_patient_evidence and normalize_policy_criteria never raise
\* on sparse or ambiguous input: with an optional field or sub-object absent
\* or null, or of an unrecognized shape, they return a result built from
\* defaults.
C20_NormalizersNeverRaise ==
    /\ ChartNormalized => chart_result.exc = ""
    /\ PolicyNormalized => policy_result.exc = ""

\* The rules of a returned rule list that carry the id evidence_quality.
EvidenceQualityAt(rules) ==
    {k \in 1..Len(rules) : rules[k].d.id = "evidence_quality"}

\* C21: for every raw policy shape, the rule list returned by
\* normalize_policy_criteria holds exactly one rule with id
\* evidence_quality, placed last, whose conditions check
\* hallucinations_detected eq 0 and validation_passed eq true.
C21_EvidenceQualityLast ==
    (PolicyNormalized /\ policy_result.exc = "") =>
        /\ EvidenceQualityAt(policy_result.ret) = {Len(policy_result.ret)}
        /\ policy_result.ret # <<>>
        /\ policy_result.ret[Len(policy_result.ret)].d.conditions =
              <<Condition("hallucinations_detected", "eq", PyInt(0)),
                Condition("validation_passed", "eq", PyTrue)>>

\* The fields named by the conditions of a returned rule list.
FieldsOf(rules) ==
    UNION {{Get(rules[k].d.conditions[c], "field", Missing) :
                c \in 1..Len(rules[k].d.conditions)} : k \in 1..Len(rules)}
        \ {Missing}

\* C22: fact-map completeness: for every raw chart and every raw policy,
\* every field named in a condition of a rule produced by
\* normalize_policy_criteria is a key of the fact map produced by
\* normalize_patient_evidence.
C22_FactMapComplete ==
    (ChartNormalized /\ PolicyNormalized
        /\ chart_result.exc = "" /\ policy_result.exc = "") =>
        /\ chart_result.ret.t = "dict"
        /\ FieldsOf(policy_result.ret) \subseteq DOMAIN chart_result.ret.d

\* C23: validate returns no error for a template that has payer, lcd_code
\* and well-formed checklist_sections, exception_pathways, exclusions,
\* denial_prevention_tips and submission_reminders, and returns an error
\* naming lcd_code when lcd_code is absent.
Validated == validation # Pending

ErrorsNaming(name) ==
    IF validation.exc # "" THEN {}
    ELSE {k \in 1..Len(validation.ret) : validation.ret[k][3] = name}

WellFormedTemplate ==
    /\ {"payer", "lcd_code"} \subseteq DOMAIN template
    /\ Get(template, "checklist_sections", PyNone) = PyList(<<EligibleDiagnosis>>)
    /\ Get(template, "exception_pathways", PyNone) = PyList(<<>>)
    /\ Get(template, "exclusions", PyNone) = PyList(<<>>)
    /\ Get(template, "denial_prevention_tips", PyNone) = PyList(<<>>)
    /\ Get(template, "submission_reminders", PyNone) = PyList(<<>>)

C23_LcdCodeRequired ==
    Validated =>
        /\ WellFormedTemplate => validation = Returned(<<>>)
        /\ "lcd_code" \notin DOMAIN template =>
               /\ validation.exc = ""
               /\ ErrorsNaming("lcd_code") # {}

\* C24: determine_verdict looks at the exception first and at the score
\* second: EXCLUDED when exception_applied names Workers' Compensation or
\* Exclusion, otherwise LIKELY_TO_APPROVE when it names Red Flag or Acute
\* Trauma, otherwise LIKELY_TO_APPROVE from 80, NEEDS_REVIEW from 60 to 79,
\* LIKELY_TO_DENY below 60.
VerdictMade == verdict # Pending

Names(names) == KwOf(verdict_args[2]) \cap names # {}

C24_ExceptionThenScore ==
    VerdictMade =>
        /\ verdict.exc = ""
        /\ verdict.ret =
             CASE Names({"Workers' Compensation", "Exclusion"}) -> "EXCLUDED"
               [] ~Names({"Workers' Compensation", "Exclusion"})
                  /\ Names({"Red Flag", "Acute Trauma"}) -> "LIKELY_TO_APPROVE"
               [] ~Names(ExceptionNames) /\ verdict_args[1] >= 80 -> "LIKELY_TO_APPROVE"
               [] ~Names(ExceptionNames) /\ verdict_args[1] \in 60..79 -> "NEEDS_REVIEW"
               [] ~Names(ExceptionNames) /\ verdict_args[1] < 60 -> "LIKELY_TO_DENY"

\* An excluding exception with a score of 80 or more, still EXCLUDED.
C24_Witness ==
    /\ VerdictMade
    /\ Names({"Workers' Compensation"})
    /\ Names({"Red Flag"})
    /\ verdict_args[1] >= 80
    /\ verdict.ret = "EXCLUDED"

\* C26: in every report returned by evaluate_all, total_rules = length of
\* results = rules_met + rules_failed, rules_met is the number of results
\* with met = true, and all_criteria_met holds iff excluded is false and
\* every result is met.
MetResults == {i \in 1..Len(report.ret.results) : report.ret.results[i].met}

C26_Tallies ==
    ReportReturned =>
        /\ report.ret.total_rules = Len(report.ret.results)
        /\ report.ret.total_rules = report.ret.rules_met + report.ret.rules_failed
        /\ report.ret.rules_met = Cardinality(MetResults)
        /\ report.ret.all_criteria_met <=>
               (~report.ret.excluded /\ MetResults = 1..Len(report.ret.results))

\* A normal-path report with two met results and a failed one.
C26_Witness ==
    /\ ReportReturned
    /\ ~report.ret.excluded
    /\ report.ret.rules_met = 2
    /\ report.ret.rules_failed = 1

\* C28: in every returned report, all_criteria_met = true implies
\* total_rules >= 1 and rules_met = total_rules.
C28_NoApprovalWithoutRules ==
    (ReportReturned /\ report.ret.all_criteria_met) =>
        /\ report.ret.total_rules >= 1
        /\ report.ret.rules_met = report.ret.total_rules

\* C29: for every patient value other than None and every threshold, exactly
\* one of compare_values(v, "eq", t) and compare_values(v, "neq", t) is true,
\* two strs that differ only in case or surrounding blanks included.
C29_EqNeqComplementary ==
    (cmp_result # Pending /\ cmp_args[2] = "eq" /\ cmp_args[1] # PyNone) =>
        LET neq == compare_values(cmp_args[1], "neq", cmp_args[3])
        IN  /\ cmp_result.exc = ""
            /\ neq.exc = ""
            /\ cmp_result.ret <=> ~neq.ret

\* C25: in the check_prior_auth pipeline every report with excluded = true
\* yields the verdict EXCLUDED, never LIKELY_TO_DENY, NEEDS_REVIEW or
\* LIKELY_TO_APPROVE.
Responded == response # Pending

C25_ExcludedVerdict ==
    (Responded /\ report.exc = "" /\ report.ret.excluded) =>
        /\ response.exc = ""
        /\ response.ret.verdict = "EXCLUDED"

\* C30: in the check_prior_auth pipeline the verdict is LIKELY_TO_APPROVE iff
\* the report has total_rules >= 1 and every rule met; a report with a failed
\* rule is never LIKELY_TO_APPROVE, whatever its score.
C30_ApproveIffAllMet ==
    (Responded /\ report.exc = "") =>
        /\ response.exc = ""
        /\ response.ret.verdict = "LIKELY_TO_APPROVE" <=>
               (report.ret.total_rules >= 1
                /\ report.ret.rules_met = report.ret.total_rules)
        /\ report.ret.rules_failed >= 1 => response.ret.verdict # "LIKELY_TO_APPROVE"

\* Four rules met and one failed: a score of 80 that is not approved.
C30_Witness ==
    /\ Responded
    /\ report.exc = ""
    /\ report.ret.rules_met = 4
    /\ report.ret.rules_failed = 1
    /\ response.ret.readiness_score = 80
    /\ response.ret.verdict = "NEEDS_REVIEW"

\* C27: the clinical_indication written by normalize_patient_evidence puts
\* the structured fields before the free text: red_flags.documented, then
\* imaging.findings, then pain_characteristics.quality, then other_treatments
\* (post-operative); a keyword of evidence_notes counts only when none of
\* these gives an indication.
Sub(d, key) == IF key \in DOMAIN d /\ d[key].t = "dict" THEN d[key].d ELSE EmptyDict

FlatChart == DOMAIN chart \cap {"requirements", "normalized_data"} = {}

RedFlagDocumented == Truth(DictGet(Sub(chart, "red_flags"), "documented"))
FindingsKw == KwOf(DictGet(Sub(chart, "imaging"), "findings"))
QualityKw == KwOf(DictGet(Sub(chart, "pain_characteristics"), "quality"))
OtherTreatmentsKw ==
    KwOf(DictGet(Sub(Sub(chart, "conservative_therapy"), "other_treatments"),
                 "description"))

WrittenIndication == DictGet(chart_result.ret.d, "clinical_indication")

C27_StructuredBeforeFreeText ==
    (/\ ChartNormalized
     /\ chart_result.exc = ""
     /\ FlatChart
     /\ ~RedFlagDocumented
     /\ FindingsKw = {})
    => /\ "mcmurray" \in QualityKw => WrittenIndication = Text("positive mcmurray")
       /\ (QualityKw = {} /\ HasAny(OtherTreatmentsKw, PostOpKeywords)) =>
              WrittenIndication = Text("post-operative")

=============================================================================
